---- MODULE Spec2Model ----
(***************************************************************************)
(* py-seed: the CRUD clients of pyseed.seed_client_base (and the older     *)
(* pyseed.seedclient), the request construction of pyseed.apibase and the  *)
(* organisation helper of pyseed.seed_client.                              *)
(*                                                                         *)
(* Spec      the CRUD calls of a SEED client                               *)
(* ApiSpec   the calls of a pyseed.apibase BaseAPI or JSONAPI object       *)
(* AddPkSpec pyseed.apibase.add_pk on its own                              *)
(* InitSpec  the constructor of a SEED client on its own                   *)
(* CycleSpec create_cycle and get_or_create_cycle against a SEED server    *)
(* OrgSpec   create_organization against a SEED server                     *)
(* PollSpec    track_progress_result polling the progress of a job         *)
(* UploadSpec  upload_and_match_datafile, step by step                     *)
(* MapFileSpec pyseed.utils.read_map_file on its own                       *)
(* LabelSpec   update_label and delete_label against the labels of a server *)
(* ByNameSpec  get_org_by_name and get_cycle_by_name                       *)
(* AuthSpec    the auth object of a client with user authentication        *)
(* AuditSpec   retrieve_at_building_and_update and                         *)
(*             retrieve_at_submission_and_update                           *)
(*                                                                         *)
(* Strings whose characters the code inspects (URLs, primary keys) are     *)
(* sequences of one-character strings; all other strings are TLA+ strings. *)
(* A JSON object is a function from its keys to values; a value is a       *)
(* string, with NoneV, TrueV and FalseV standing for null, true and false. *)
(***************************************************************************)
EXTENDS Integers, Sequences, FiniteSets, TLC

VARIABLES legacy,    \* TRUE: a pyseed.seedclient client, FALSE: pyseed.seed_client_base
          authKind,  \* "oauth" (OAuthMixin) or "user" (UserAuthMixin)
          use_ssl,   \* self.use_ssl
          token,     \* self.token, the stored access token (NoneV when unset)
          auth,      \* self.auth, the requests auth object (NoneV until created)
          org_id,    \* self.org_id
          org_set,   \* id found by the latest get_org_by_name(set_org_id=True), 0 if none
          pc,        \* "idle": between calls, "done": a call has just completed
          last,      \* the record of the call that has just completed
          api,       \* a pyseed.apibase BaseAPI or JSONAPI object
          call,      \* the record of the latest call made on api
          fn_args,   \* the arguments a function is called with
          fn_result, \* what the function returned or raised, once it was called
          server,    \* the cycles, or the organizations, on the SEED server
          cycle_id,  \* self.cycle_id of a pyseed.seed_client SeedClient (0 when unset)
          hist       \* the records of the latest and of the previous call of the SeedClient

\* the client and the record of its latest call
seedvars == <<legacy, authKind, use_ssl, token, auth, org_id, org_set, last>>

\* the object and the call record of the pyseed.apibase specification
apivars == <<api, call>>

\* the variables of the specifications of single functions
fnvars == <<fn_args, fn_result>>

\* the variables of the specifications of the calls that create cycles and
\* organizations
servervars == <<server, cycle_id, hist>>

vars == <<seedvars, pc, apivars, fnvars, servervars>>

----------------------------------------------------------------------------
(* Bounds of the model *)

MaxOrgId == 2      \* organisation ids are 1..MaxOrgId
MaxPk == 2         \* integer primary keys are -1..MaxPk

----------------------------------------------------------------------------
(* Python values *)

NoneV == "None"
TrueV == "True"
FalseV == "False"

Truthy(v) == v \notin {NoneV, FalseV, ""}

Digits == {"0", "1", "2", "3", "4", "5", "6", "7", "8", "9"}

Range(s) == {s[i] : i \in DOMAIN s}

RECURSIVE Join(_)
Join(cs) == IF cs = <<>> THEN "" ELSE Head(cs) \o Join(Tail(cs))

startswith(s, p) == Len(s) >= Len(p) /\ SubSeq(s, 1, Len(p)) = p

endswith(s, p) == Len(s) >= Len(p) /\ SubSeq(s, Len(s) - Len(p) + 1, Len(s)) = p

\* the one element of a singleton set; Only({e(x) : x \in {v}}) is e(v), with v
\* evaluated once
Only(S) == CHOOSE x \in S : TRUE

\* str.lstrip(chars): drops leading characters that are in the set chars
lstrip(s, chars) ==
  Only({ SubSeq(t, CHOOSE k \in 1 .. Len(t) + 1 :
                     /\ \A j \in 1 .. k - 1 : t[j] \in chars
                     /\ (k = Len(t) + 1 \/ t[k] \notin chars),
                Len(t)) : t \in {s} })

\* str.rstrip(chars)
rstrip(s, chars) ==
  Only({ SubSeq(t, 1, CHOOSE k \in 0 .. Len(t) :
                        /\ \A j \in k + 1 .. Len(t) : t[j] \in chars
                        /\ (k = 0 \/ t[k] \notin chars)) : t \in {s} })

\* str.rfind(c) + 1: the last position of c in s, 0 when there is none
LastIndex(s, c) ==
  Only({ (IF hits = {} THEN 0 ELSE CHOOSE i \in hits : \A j \in hits : j <= i) :
           hits \in {{i \in DOMAIN s : s[i] = c}} })

\* str.rsplit(sep, maxsplit): at most maxsplit splits, taken from the right
RECURSIVE rsplit(_, _, _)
rsplit(s, sep, maxsplit) ==
  IF maxsplit = 0 THEN <<s>>
  ELSE Only({ Only({ IF i = 0 THEN <<t>>
                     ELSE rsplit(SubSeq(t, 1, i - 1), sep, maxsplit - 1)
                            \o <<SubSeq(t, i + 1, Len(t))>> :
                     i \in {LastIndex(t, sep)} }) : t \in {s} })

\* str.isdigit()
isdigit(s) == s # <<>> /\ \A i \in DOMAIN s : s[i] \in Digits

\* dict.get(key, default)
DictGet(d, k, default) == IF k \in DOMAIN d THEN d[k] ELSE default

\* dict without one key (dict.pop)
DictPop(d, k) == [x \in DOMAIN d \ {k} |-> d[x]]

----------------------------------------------------------------------------
(* Primary keys: None, an int, a str, or a value of another type *)

PkNone == [t |-> "none", i |-> 0, s |-> <<>>]
PkInt(n) == [t |-> "int", i |-> n, s |-> <<>>]
PkStr(cs) == [t |-> "str", i |-> 0, s |-> cs]
PkOther == [t |-> "float", i |-> 0, s |-> <<>>]

\* not pk
PkFalsy(pk) ==
  \/ pk.t = "none"
  \/ pk.t = "int" /\ pk.i = 0
  \/ pk.t = "str" /\ pk.s = <<>>

\* str(pk) as interpolated by the f-string; ints of the model have one digit
PkText(pk) == IF pk.t = "int" THEN <<ToString(pk.i)>> ELSE pk.s

Pks == {PkNone, PkOther, PkStr(<<"x">>), PkStr(<<"2">>)}
         \cup {PkInt(n) : n \in -1 .. MaxPk}

----------------------------------------------------------------------------
(* Exceptions and results *)

NoExc == [type |-> "", error |-> "", service |-> "", url |-> <<>>,
          verb |-> "", status_code |-> 0, caller |-> ""]

\* an exception that is not an APIClientError carries a message only
Raise(type, msg) == [NoExc EXCEPT !.type = type, !.error = msg]

\* APIClientError.__init__ called with the error alone
APIClientError(msg) == Raise("APIClientError", msg)

\* SEEDError.__init__: an APIClientError whose service is 'SEED'
SEEDError(error, url, caller, verb, status_code) ==
  [type |-> "SEEDError", error |-> error, service |-> "SEED", url |-> url,
   verb |-> verb, status_code |-> status_code, caller |-> caller]

add_pk_required_msg == "id/pk must be supplied"
add_pk_type_msg == "id/pk must be a positive integer"

\* add_pk with the pk always joined by a new '/'
add_pk_doubled_slash(url, pk, required, slash) ==
  IF required /\ PkFalsy(pk)
    THEN [exc |-> APIClientError(add_pk_required_msg), url |-> url]
  ELSE IF ~PkFalsy(pk)
          /\ (\/ pk.t = "str" /\ ~isdigit(pk.s)
              \/ pk.t \notin {"int", "str"}
              \/ pk.t = "int" /\ pk.i < 0)
    THEN [exc |-> Raise("TypeError", add_pk_type_msg), url |-> url]
  ELSE Only({ [exc |-> NoExc,
                url |-> IF slash /\ ~endswith(u, <<"/">>) THEN u \o <<"/">> ELSE u] :
              u \in { IF PkFalsy(pk) THEN url ELSE url \o <<"/">> \o PkText(pk) } })

\* add_pk(url, pk, required, slash): [exc, url]
add_pk(url, pk, required, slash) ==
  IF required /\ PkFalsy(pk)
    THEN [exc |-> APIClientError(add_pk_required_msg), url |-> url]
  ELSE IF ~PkFalsy(pk)
          /\ (\/ pk.t = "str" /\ ~isdigit(pk.s)
              \/ pk.t \notin {"int", "str"}
              \/ pk.t = "int" /\ pk.i < 0)
    THEN [exc |-> Raise("TypeError", add_pk_type_msg), url |-> url]
  ELSE Only({ [exc |-> NoExc,
                url |-> IF slash /\ ~endswith(u, <<"/">>) THEN u \o <<"/">> ELSE u] :
              u \in { IF PkFalsy(pk) THEN url
                      ELSE IF ~endswith(url, <<"/">>) THEN url \o <<"/">> \o PkText(pk)
                      ELSE url \o PkText(pk) } })

----------------------------------------------------------------------------
(* URLs *)

Slash == {"/"}
HttpsPrefix == <<"h", "t", "t", "p", "s", ":", "/", "/">>
HttpPrefix == <<"h", "t", "t", "p", ":", "/", "/">>

\* constructor arguments of the client (base_url='example.org', port=1337)
BaseUrlArg == <<"e", "x", "a", "m", "p", "l", "e", ".", "o", "r", "g">>
PortArg == <<"1", "3", "3", "7">>

\* the url_map handed to the constructor
URLS == ("test1" :> <<"a", "p", "i", "/", "v", "3", "/", "t", "e", "s", "t">>)
          @@ ("organizations" :> <<"/", "a", "p", "i", "/", "v", "3", "/", "o", "r", "g", "a", "n", "i", "z", "a", "t", "i", "o", "n", "s", "/">>)

\* the url_map of a pyseed.seedclient client
legacy_URLS == ("test1" :> <<"a", "p", "i", "/", "v", "2", "/", "t", "e", "s", "t">>)
                 @@ ("users" :> <<"/", "a", "p", "i", "/", "v", "2", "/", "u", "s", "e", "r", "s", "/">>)

\* SEEDBaseClient.__init__: self.base_url
base_url ==
  LET withPort == IF PortArg # <<>> THEN BaseUrlArg \o <<":">> \o PortArg
                  ELSE BaseUrlArg
  IN IF ~endswith(withPort, <<"/">>) THEN withPort \o <<"/">> ELSE withPort

\* the urls with the base and the path put together as they are
_get_urls_unstripped(base, url_map) ==
  [key \in DOMAIN url_map |-> base \o url_map[key]]

\* _get_urls(base_url, url_map)
_get_urls(base, url_map) ==
  [key \in DOMAIN url_map |->
     rstrip(base, Slash) \o <<"/">> \o lstrip(url_map[key], Slash)]

\* self.urls of a pyseed.seed_client_base client
self_urls == _get_urls(base_url, URLS)

\* self.urls of a pyseed.seedclient client
legacy_self_urls == _get_urls(base_url, legacy_URLS)

\* self.urls
urls(leg) == IF leg THEN legacy_self_urls ELSE self_urls

\* class attributes of the client class (MySeedClient: endpoint = 'test1')
ClassName == "MySeedClient"
self_endpoint == <<"t", "e", "s", "t", "1">>
self_data_name == <<>>

\* _set_default(obj, key, val, required): [exc, val]; attr is getattr(obj, key, None)
_set_default(attr, key, val, required) ==
  IF val = <<>> /\ attr = <<>> /\ required
    THEN [exc |-> Raise("AttributeError", key \o " is not set"), val |-> <<>>]
    ELSE [exc |-> NoExc, val |-> IF val = <<>> THEN attr ELSE val]

\* the scheme of the url replaced without a check
_construct_url_unchecked(urlstring, ssl) ==
  IF urlstring = <<>>
    THEN [exc |-> APIClientError("No url set"), url |-> <<>>]
  ELSE [exc |-> NoExc,
        url |-> (IF ssl THEN HttpsPrefix ELSE HttpPrefix)
                  \o (IF startswith(urlstring, HttpsPrefix)
                        THEN SubSeq(urlstring, Len(HttpsPrefix) + 1, Len(urlstring))
                      ELSE IF startswith(urlstring, HttpPrefix)
                        THEN SubSeq(urlstring, Len(HttpPrefix) + 1, Len(urlstring))
                      ELSE urlstring)]

\* BaseAPI._construct_url(urlstring, use_ssl) where self.url is None (or
\* urlstring is given); ssl is the use_ssl in force: [exc, url]
_construct_url(urlstring, ssl) ==
  IF urlstring = <<>>
    THEN [exc |-> APIClientError("No url set"), url |-> <<>>]
  ELSE IF startswith(urlstring, HttpsPrefix) /\ ~ssl
    THEN [exc |-> APIClientError("use_ssl is false but url starts with https"),
          url |-> <<>>]
  ELSE IF startswith(urlstring, HttpPrefix) /\ ssl
    THEN [exc |-> APIClientError("use_ssl is true but url does not starts with https"),
          url |-> <<>>]
  ELSE LET bare == IF startswith(urlstring, HttpsPrefix)
                     THEN SubSeq(urlstring, Len(HttpsPrefix) + 1, Len(urlstring))
                   ELSE IF startswith(urlstring, HttpPrefix)
                     THEN SubSeq(urlstring, Len(HttpPrefix) + 1, Len(urlstring))
                   ELSE urlstring
       IN [exc |-> NoExc,
           url |-> (IF ssl THEN HttpsPrefix ELSE HttpPrefix) \o bare]

----------------------------------------------------------------------------
(* Building the request: pyseed.apibase *)

NoHeaders == <<>>
NoBody == <<>>

\* a token type other than OAuthMixin's
_token_type_basic == "Basic"

\* OAuthMixin._token_type
_token_type == "Bearer"

\* UserAuthMixin._get_auth() of a client without auth_method: HTTP basic auth
_get_auth == "HTTPBasicAuth"

\* BaseAPI._construct_payload(params) of a client without compulsory_params
BaseAPI_construct_payload(params) == params

\* OAuthMixin._construct_payload(params): [exc, params, auth].  access is the
\* outcome of _get_access_token(): a token, or NoneV when it raises.
OAuthMixin_construct_payload(params, tok, access, au) ==
  LET p == BaseAPI_construct_payload(params)
      t == IF Truthy(tok) THEN tok ELSE access
  IN IF ~Truthy(tok) /\ access = NoneV
       THEN [exc |-> Raise("TypeError", "_get_access_token"), params |-> p, auth |-> au]
       ELSE [exc |-> NoExc,
             params |-> ("headers" :> ("Authorization" :> (_token_type \o " " \o t))) @@ p,
             auth |-> au]

\* UserAuthMixin._construct_payload(params) with use_auth set: [exc, params, auth]
UserAuthMixin_construct_payload(params, au) ==
  [exc |-> NoExc,
   params |-> BaseAPI_construct_payload(params),
   auth |-> IF ~Truthy(au) THEN _get_auth ELSE au]

\* self._construct_payload(params), resolved along the client's MRO
_construct_payload(kind, params, tok, access, au) ==
  IF kind = "oauth" THEN OAuthMixin_construct_payload(params, tok, access, au)
  ELSE UserAuthMixin_construct_payload(params, au)

\* the keyword arguments handed to requests.<verb>(url, **payload)
Request(method, url, params, headers, body_key, body, au) ==
  [method |-> method, url |-> url, params |-> params, headers |-> headers,
   body_key |-> body_key, body |-> body, auth |-> au]

NoRequest == Request("", <<>>, <<>>, NoHeaders, "", NoBody, NoneV)

\* BaseAPI._get and BaseAPI._delete: [exc, req, auth]
QueryCall(method, url, kwargs, ssl, kind, tok, access, au) ==
  Only({ IF cu.exc # NoExc THEN [exc |-> cu.exc, req |-> NoRequest, auth |-> au]
         ELSE IF cp.exc # NoExc THEN [exc |-> cp.exc, req |-> NoRequest, auth |-> cp.auth]
         ELSE [exc |-> NoExc,
               req |-> Request(method, cu.url, DictPop(cp.params, "headers"),
                               DictGet(cp.params, "headers", NoHeaders), "", NoBody,
                               cp.auth),
               auth |-> cp.auth] :
           cu \in {_construct_url(url, ssl)},
           cp \in {_construct_payload(kind, kwargs, tok, access, au)} })

_get(url, kwargs, ssl, kind, tok, access, au) ==
  QueryCall("GET", url, kwargs, ssl, kind, tok, access, au)

_delete(url, kwargs, ssl, kind, tok, access, au) ==
  QueryCall("DELETE", url, kwargs, ssl, kind, tok, access, au)

\* BaseAPI._post, BaseAPI._put and BaseAPI._patch called without files:
\* [exc, req, auth].  params is the params argument ({} when None).
BodyCall(method, url, params, kwargs, ssl, use_json, kind, tok, access, au) ==
  Only({ IF cu.exc # NoExc THEN [exc |-> cu.exc, req |-> NoRequest, auth |-> au]
         ELSE IF cp.exc # NoExc THEN [exc |-> cp.exc, req |-> NoRequest, auth |-> cp.auth]
         ELSE [exc |-> NoExc,
               req |-> Request(method, cu.url,
                               DictPop(kwargs, key) @@ DictPop(cp.params, "headers"),
                               DictGet(cp.params, "headers", NoHeaders), key,
                               IF DictGet(kwargs, key, NoBody) # NoBody
                                 THEN kwargs[key] ELSE DictPop(kwargs, key),
                               cp.auth),
               auth |-> cp.auth] :
           cu \in {_construct_url(url, ssl)},
           cp \in {_construct_payload(kind, params, tok, access, au)},
           key \in {IF use_json THEN "json" ELSE "data"} })

_post(url, params, kwargs, ssl, use_json, kind, tok, access, au) ==
  BodyCall("POST", url, params, kwargs, ssl, use_json, kind, tok, access, au)

_put(url, params, kwargs, ssl, use_json, kind, tok, access, au) ==
  BodyCall("PUT", url, params, kwargs, ssl, use_json, kind, tok, access, au)

_patch(url, params, kwargs, ssl, use_json, kind, tok, access, au) ==
  BodyCall("PATCH", url, params, kwargs, ssl, use_json, kind, tok, access, au)

----------------------------------------------------------------------------------------------------------------------------------------
(* Responses *)

JsonType == "application/json"
XlsxType == "application/vnd.openxmlformats-officedocument.spreadsheetml.sheet"
PdfType == "application/pdf"
TextType == "text/html"

\* mime in response.headers.get("Content-Type", []); ctype is NoneV without the header
HasType(ctype, mime) == ctype = mime

\* kind: "dict", "list", "null" (parsed JSON), "invalid" (content that is not
\* JSON), "empty" (no content).  d: the JSON object when kind is "dict".
Response(status_code, ctype, kind, d, url, method) ==
  [status_code |-> status_code, ctype |-> ctype, kind |-> kind, d |-> d,
   url |-> url, method |-> method]

NoResponse == Response(0, NoneV, "empty", <<>>, <<>>, "")

\* bool(response.content)
HasContent(resp) == resp.kind # "empty"

\* response.json() raises ValueError
JsonRaises(resp) == resp.kind \in {"empty", "invalid"}

\* getattr(response.json(), "get", None)
JsonHasGet(resp) == resp.kind = "dict"

\* the text an f-string makes of response.json()
JsonText(resp) == "<" \o resp.kind \o ">"

\* values returned to the caller: t is "none" (None), "value" (one value v of
\* the JSON object), "dict" (a whole JSON object d), "list" (a JSON list),
\* "null", "raw" (response.content), "content" ({status, content})
Ret(t, v, d) == [t |-> t, v |-> v, d |-> d]

NoRet == Ret("none", NoneV, <<>>)

----------------------------------------------------------------------------
(* Checking the response and extracting the result: pyseed.seed_client_base *)

\* a list of accepted status codes that lets 404 through
OkCodes_with_404 == {200, 201, 202, 204, 404}

\* the status codes _check_response accepts: OK, Created, Accepted, No-Content
OkCodes == {200, 201, 202, 204}

\* requests.codes.no_content
NoContentCode == 204

\* the statuses of a background task that are no error
ProgressOk == {"not-started", "success", "parsing"}

\* the keys that show a success in a body without 'status'
SuccessKeys == {"results", "readings", "data", "status", "id", "organizations", "sha", "users"}

\* SEEDBaseClient._raise_error(response, error_msg, stack_pos); stack is
\* inspect.stack(), innermost frame first
_raise_error(resp, error_msg, stack_pos, stack) ==
  SEEDError(error_msg, resp.url, ClassName \o "." \o stack[stack_pos + 2],
            resp.method, resp.status_code)

\* an error flag that holds every status to the statuses of a background task
DictIsError_any_status(d) ==
  IF Truthy(DictGet(d, "status", NoneV)) THEN d["status"] \notin ProgressOk
  ELSE IF "success" \in DOMAIN d THEN ~Truthy(d["success"])
  ELSE IF "progress_data" \in DOMAIN d THEN d["progress_data"] \notin ProgressOk
  ELSE ~(\E key \in DOMAIN d : key \in SuccessKeys)

\* the error flag of _check_response for a 200/201/202 JSON object
DictIsError(d) ==
  IF Truthy(DictGet(d, "status", NoneV))
    THEN IF "progress_key" \in DOMAIN d THEN d["status"] \notin ProgressOk
         ELSE d["status"] = "error"
  ELSE IF "success" \in DOMAIN d THEN ~Truthy(d["success"])
  ELSE IF "progress_data" \in DOMAIN d THEN d["progress_data"] \notin ProgressOk
  ELSE ~(\E key \in DOMAIN d : key \in SuccessKeys)

\* an error message that leaves the body of the response aside
ErrorMessage_without_body(resp, initial) == initial

\* the message _check_response reports once the response is found in error
ErrorMessage(resp, initial) ==
  IF HasContent(resp)
    THEN IF JsonRaises(resp) THEN "Unknown SEED Error: No response returned"
         ELSE IF JsonHasGet(resp)
           THEN DictGet(resp.d, "message",
                        "Unknown SEED Error " \o ToString(resp.status_code)
                          \o ": " \o JsonText(resp))
         ELSE "Unknown SEED Error " \o ToString(resp.status_code)
                \o ": " \o JsonText(resp)
  ELSE initial

\* the error flag of _check_response
ResponseIsError(resp) ==
  IF resp.status_code \notin OkCodes THEN TRUE
  ELSE IF resp.status_code = NoContentCode THEN FALSE
  ELSE IF HasType(resp.ctype, XlsxType) THEN FALSE
  ELSE IF HasType(resp.ctype, PdfType) THEN FALSE
  ELSE IF ~HasType(resp.ctype, JsonType) THEN ~HasContent(resp)
  ELSE IF resp.kind = "dict" THEN DictIsError(resp.d)
  ELSE resp.kind # "list"

\* SEEDBaseClient._check_response(response): the exception it raises, NoExc if none.
\* verb is the CRUD method that called it, userFn the function that called verb.
_check_response(resp, verb, userFn) ==
  IF /\ resp.status_code \in OkCodes \ {NoContentCode}
     /\ ~HasType(resp.ctype, XlsxType)
     /\ ~HasType(resp.ctype, PdfType)
     /\ HasType(resp.ctype, JsonType)
     /\ JsonRaises(resp)
    THEN Raise("ValueError", "JSONDecodeError")
  ELSE IF ResponseIsError(resp)
    THEN _raise_error(resp,
                      ErrorMessage(resp,
                                   IF resp.status_code \notin OkCodes
                                     THEN "SEED returned status code: "
                                            \o ToString(resp.status_code)
                                     ELSE "Unknown error from SEED API"),
                      1, <<"_raise_error", "_check_response", verb, userFn>>)
  ELSE NoExc

IndexError == [exc |-> Raise("IndexError", "list index out of range"), name |-> <<>>]

\* data_name derived from the request url: [exc, name]
DeriveDataName(url) ==
  Only({ IF Len(durl) < 2 THEN IndexError
         ELSE IF isdigit(durl[2])
           THEN Only({ IF Len(parts) < 2 THEN IndexError
                       ELSE [exc |-> NoExc, name |-> parts[2]] :
                       parts \in {rsplit(durl[1], "/", 2)} })
         ELSE [exc |-> NoExc, name |-> durl[2]] :
         durl \in {rsplit(rstrip(lstrip(url, Range(base_url)), Slash), "/", 1)} })

AllName == <<"a", "l", "l">>

\* the first of the names that is a key of d, whatever its value
FirstKey_present(d, names) ==
  IF \E i \in DOMAIN names : names[i] \in DOMAIN d
    THEN names[CHOOSE i \in DOMAIN names :
                 /\ names[i] \in DOMAIN d
                 /\ \A j \in 1 .. i - 1 : names[j] \notin DOMAIN d]
    ELSE ""

\* the first of the names whose value in d is not None, "" when there is none
FirstKey(d, names) ==
  IF \E i \in DOMAIN names : DictGet(d, names[i], NoneV) # NoneV
    THEN names[CHOOSE i \in DOMAIN names :
                 /\ DictGet(d, names[i], NoneV) # NoneV
                 /\ \A j \in 1 .. i - 1 : DictGet(d, names[j], NoneV) = NoneV]
    ELSE ""

\* response.json() as _get_result takes it ({"status": "success"} for a 204)
ResultBody(resp) ==
  IF resp.status_code = NoContentCode THEN Ret("dict", NoneV, "status" :> "success")
  ELSE IF resp.kind = "dict" THEN Ret("dict", NoneV, resp.d)
  ELSE Ret(resp.kind, NoneV, <<>>)

\* the loop of _get_result over data_name, 'data' and 'detail': the result it
\* leaves, given the parsed body
ConstrainedResult(whole, data_name) ==
  IF /\ data_name # AllName
     /\ whole.t = "dict"
     /\ FirstKey(whole.d, <<Join(data_name), "data", "detail">>) # ""
    THEN Ret("value", whole.d[FirstKey(whole.d, <<Join(data_name), "data", "detail">>)],
             <<>>)
    ELSE whole

\* result is None
IsNone(result) == result.t = "null" \/ (result.t = "value" /\ result.v = NoneV)

\* SEEDBaseClient._get_result(response, data_name): [exc, ret, data_name].
\* derived.name is data_name once derived from the url.
_get_result(resp, data_name, verb, userFn) ==
  IF HasType(resp.ctype, XlsxType)
    THEN [exc |-> NoExc, ret |-> Ret("raw", NoneV, <<>>), data_name |-> data_name]
  ELSE IF ~HasType(resp.ctype, JsonType)
    THEN [exc |-> NoExc, ret |-> Ret("content", NoneV, <<>>), data_name |-> data_name]
  ELSE Only({
    IF derived.exc # NoExc
      THEN [exc |-> derived.exc, ret |-> NoRet, data_name |-> <<>>]
    ELSE IF resp.status_code # NoContentCode /\ JsonRaises(resp)
      THEN [exc |-> Raise("ValueError", "JSONDecodeError"), ret |-> NoRet,
            data_name |-> derived.name]
    ELSE IF IsNone(ResultBody(resp))
      THEN [exc |-> _raise_error(resp, "No results returned", 2,
                                 <<"_raise_error", "_get_result", verb, userFn>>),
            ret |-> NoRet, data_name |-> derived.name]
    ELSE Only({
      IF IsNone(result)
        THEN [exc |-> _raise_error(resp, "Could not find result using data_name "
                                           \o Join(derived.name) \o ".", 2,
                                   <<"_raise_error", "_get_result", verb, userFn>>),
              ret |-> NoRet, data_name |-> derived.name]
        ELSE [exc |-> NoExc, ret |-> result, data_name |-> derived.name] :
      result \in {ConstrainedResult(ResultBody(resp), derived.name)} }) :
    derived \in { IF data_name = <<>> THEN DeriveDataName(resp.url)
                 ELSE [exc |-> NoExc, name |-> data_name] } })

----------------------------------------------------------------------------
(* The same two methods in pyseed.seedclient *)

legacy_OkCodes == {200, 201, 202}

\* pyseed.seedclient SEEDBaseClient._check_response
legacy_check_response(resp, verb, userFn) ==
  IF resp.status_code \in legacy_OkCodes /\ JsonRaises(resp)
    THEN Raise("ValueError", "JSONDecodeError")
  ELSE IF resp.status_code \in legacy_OkCodes /\ resp.kind # "dict"
    THEN Raise("AttributeError", "object has no attribute 'get'")
  ELSE IF resp.status_code \in legacy_OkCodes
          /\ DictGet(resp.d, "status", NoneV) # "error"
    THEN NoExc
  ELSE IF HasContent(resp) /\ ~JsonRaises(resp) /\ resp.kind # "dict"
    THEN Raise("AttributeError", "object has no attribute 'get'")
  ELSE _raise_error(resp,
                    IF ~HasContent(resp)
                      THEN IF resp.status_code \notin legacy_OkCodes
                             THEN "SEED returned status code: "
                                    \o ToString(resp.status_code)
                             ELSE "Unknown error from SEED API"
                    ELSE IF JsonRaises(resp) THEN "Unknown SEED Error"
                    ELSE DictGet(resp.d, "message", "Unknown SEED Error"),
                    1, <<"_raise_error", "_check_response", verb, userFn>>)

\* pyseed.seedclient SEEDBaseClient._get_result
legacy_get_result(resp, data_name, verb, userFn) ==
  Only({
    IF derived.exc # NoExc
      THEN [exc |-> derived.exc, ret |-> NoRet, data_name |-> <<>>]
    ELSE IF JsonRaises(resp)
      THEN [exc |-> Raise("ValueError", "JSONDecodeError"), ret |-> NoRet,
            data_name |-> derived.name]
    ELSE IF resp.kind # "dict"
      THEN [exc |-> Raise("AttributeError", "object has no attribute 'get'"),
            ret |-> NoRet, data_name |-> derived.name]
    ELSE Only({
      IF key = ""
        THEN [exc |-> _raise_error(resp, "Could not find result using data_name "
                                           \o Join(derived.name) \o ".", 2,
                                   <<"_raise_error", "_get_result", verb, userFn>>),
              ret |-> NoRet, data_name |-> derived.name]
      ELSE [exc |-> NoExc, ret |-> Ret("value", resp.d[key], <<>>),
            data_name |-> derived.name] :
      key \in {FirstKey(resp.d, <<Join(derived.name), "data", "detail">>)} }) :
    derived \in { IF data_name = <<>> THEN DeriveDataName(resp.url)
                 ELSE [exc |-> NoExc, name |-> data_name] } })

----------------------------------------------------------------------------
(* Inputs: what callers pass and what the server answers *)

\* the function that calls the CRUD method
UserFn == "<module>"

EndpointOrganizations == <<"o", "r", "g", "a", "n", "i", "z", "a", "t", "i", "o", "n", "s">>

Endpoints == {<<>>, EndpointOrganizations, <<"n", "o", "p", "e">>, <<"h", "t", "t", "p", ":", "/", "/", "e", "x", "a", "m", "p", "l", "e", ".", "o", "r", "g", "/", "a", "p", "i", "/">>}

DataNames == {<<>>, AllName, <<"t", "e", "s", "t">>}

\* keyword arguments of a CRUD call
Kwargs ==
  { <<>>,
    "organization_id" :> MaxOrgId,
    "foo" :> "bar",
    ("foo" :> "bar") @@ ("json" :> ("more" :> "data")),
    "required_pk" :> FalseV }

\* the arguments of a CRUD call: every primary key with the other arguments
\* left out, and every combination of the other arguments with the key 1
CallArgs ==
  [pk : Pks, endpoint : {<<>>}, data_name : {<<>>}, kwargs : {<<>>}]
    \cup [pk : {PkInt(1)}, endpoint : Endpoints, data_name : DataNames, kwargs : Kwargs]

\* outcomes of OAuthMixin._get_access_token(): a fresh token, or NoneV (it raises)
Accesses == {"jwt", NoneV}

OrgsV == "<organizations>"   \* the list of organizations, as a JSON value
ListV == "<list>"            \* some JSON list, as a value

Body(kind, d) == [kind |-> kind, d |-> d]

FewDictBodies ==
  { Body("dict", d) : d \in
      { ("status" :> "success") @@ ("data" :> "Llama!"),
        ("status" :> "error") @@ ("message" :> "No llama!"),
        ("status" :> "success") @@ ("bar" :> "No llama!"),
        ("status" :> "error"),
        ("message" :> "No llama!") } }

DictBodies ==
  FewDictBodies \cup
  { Body("dict", d) : d \in
      { ("test" :> "T") @@ ("data" :> "D"),
        ("v3" :> "V") @@ ("test" :> "T"),
        ("status" :> "success") @@ ("test" :> NoneV) @@ ("data" :> NoneV) @@ ("detail" :> "Det"),
        ("status" :> "success") @@ ("data" :> ""),
        ("status" :> "error") @@ ("progress_key" :> "k") @@ ("message" :> "failed"),
        ("status" :> "parsing") @@ ("progress_key" :> "k"),
        ("status" :> "complete"),
        ("status" :> ""),
        ("success" :> FalseV) @@ ("message" :> "upload failed"),
        ("success" :> TrueV),
        ("progress_data" :> "error"),
        ("progress_data" :> "success"),
        ("id" :> "7"),
        ("status" :> "success") @@ ("organizations" :> OrgsV),
        ("status" :> "success") @@ ("data" :> ListV),
        ("bar" :> "B") } }

OtherBodies == { Body(k, <<>>) : k \in {"empty", "invalid", "list", "null"} }

\* status codes _check_response does not accept
ErrorCodes == {203, 404, 500}

ContentTypes == {NoneV, JsonType, TextType, XlsxType, PdfType}

\* the url of the request as requests prepared it: the url called, or the url
\* called with the organization id encoded in its query string
RequestUrls(req) ==
  {req.url}
    \cup { req.url \o <<"?", "o", "r", "g", "a", "n", "i", "z", "a", "t", "i", "o", "n", "_", "i", "d", "=">> \o <<ToString(req.params[k])>> :
             k \in DOMAIN req.params \cap {"organization_id"} }

\* the answers every request is tried with
BasicResponses(req) ==
  { Response(NoContentCode, NoneV, "empty", <<>>, req.url, req.method),
    Response(200, JsonType, "dict", ("status" :> "success") @@ ("data" :> "Llama!"),
             req.url, req.method),
    Response(200, JsonType, "dict", ("status" :> "error") @@ ("message" :> "No llama!"),
             req.url, req.method) }
    \cup { Response(sc, NoneV, "empty", <<>>, req.url, req.method) : sc \in ErrorCodes }

\* all the answers of the model
AllResponses(req) ==
  { Response(NoContentCode, ct, "empty", <<>>, req.url, req.method) :
      ct \in {NoneV, JsonType} }
    \cup { Response(sc, ct, b.kind, b.d, req.url, req.method) :
             sc \in {200} \cup ErrorCodes, ct \in ContentTypes, b \in OtherBodies }
    \cup { Response(sc, ct, b.kind, b.d, req.url, req.method) :
             sc \in {201, 202}, ct \in {JsonType, TextType}, b \in OtherBodies }
    \cup { Response(sc, TextType, b.kind, b.d, req.url, req.method) :
             sc \in {200} \cup ErrorCodes, b \in FewDictBodies }
    \cup { Response(sc, JsonType, b.kind, b.d, req.url, req.method) :
             sc \in {201, 202} \cup ErrorCodes, b \in FewDictBodies }
    \cup { Response(200, JsonType, b.kind, b.d, u, req.method) :
             b \in DictBodies, u \in RequestUrls(req) }

\* the responses the server may give to a request; calls that leave endpoint
\* and keyword arguments out are tried with every answer, the others with the
\* basic ones
Responses(req, args) ==
  IF args.kwargs = <<>> /\ args.endpoint = <<>> /\ args.pk \in {PkNone, PkInt(1)}
    THEN AllResponses(req) ELSE BasicResponses(req)

\* the arguments of list and post, which take no primary key
ListArgs ==
  [pk : {PkNone}, endpoint : Endpoints, data_name : DataNames, kwargs : Kwargs]

----------------------------------------------------------------------------
(* The CRUD methods.  They are called without url_args and without         *)
(* include_org_id_query_param.                                             *)

\* params with the organization id set only where the caller left it out
_set_params_keep_caller(params, oid) == params @@ ("organization_id" :> oid)

\* SEEDBaseClient._set_params(params)
_set_params(params, oid) == ("organization_id" :> oid) @@ params

\* pyseed.seedclient SEEDBaseClient._set_params(params)
legacy_set_params(params, oid) == ("org_id" :> oid) @@ params

\* self._set_params of either client
SetParams(leg, params, oid) ==
  IF leg THEN legacy_set_params(params, oid) ELSE _set_params(params, oid)

\* self.urls[endpoint] after _set_default(self, "endpoint", endpoint): [exc, url]
EndpointUrl(leg, endpoint) ==
  Only({ IF ep.exc # NoExc THEN [exc |-> ep.exc, url |-> <<>>]
         ELSE Only({ IF name \notin DOMAIN urls(leg)
                       THEN [exc |-> Raise("KeyError", name), url |-> <<>>]
                       ELSE [exc |-> NoExc, url |-> urls(leg)[name]] :
                     name \in {Join(ep.val)} }) :
         ep \in {_set_default(self_endpoint, "endpoint", endpoint, TRUE)} })

\* get, put, patch and delete up to the HTTP call: [exc, url, kwargs]
PkUrl(leg, pk, endpoint, kwargs, oid) ==
  Only({ IF eu.exc # NoExc THEN [exc |-> eu.exc, url |-> <<>>, kwargs |-> kw]
         ELSE Only({ [exc |-> ap.exc, url |-> ap.url,
                      kwargs |-> IF leg THEN kw ELSE DictPop(kw, "required_pk")] :
                     ap \in {add_pk(eu.url, pk,
                                    IF leg THEN TRUE
                                    ELSE Truthy(DictGet(kw, "required_pk", TrueV)),
                                    TRUE)} }) :
         kw \in {SetParams(leg, kwargs, oid)}, eu \in {EndpointUrl(leg, endpoint)} })

\* list up to the HTTP call: [exc, url, kwargs]
ListUrl(leg, endpoint, kwargs, oid) ==
  Only({ [exc |-> eu.exc,
          url |-> IF eu.exc = NoExc /\ ~endswith(eu.url, <<"/">>)
                    THEN eu.url \o <<"/">> ELSE eu.url,
          kwargs |-> SetParams(leg, kwargs, oid)] :
         eu \in {EndpointUrl(leg, endpoint)} })

\* post up to the HTTP call: [exc, url, kwargs]
PostUrl(leg, endpoint, kwargs, oid) ==
  Only({ IF ep.exc # NoExc
           THEN [exc |-> ep.exc, url |-> <<>>, kwargs |-> SetParams(leg, kwargs, oid)]
         ELSE IF ~leg /\ "/" \in Range(ep.val)
           THEN [exc |-> NoExc,
                 url |-> IF ~endswith(ep.val, <<"/">>) THEN ep.val \o <<"/">> ELSE ep.val,
                 kwargs |-> SetParams(leg, kwargs, oid)]
         ELSE IF ~leg /\ Join(ep.val) \notin DOMAIN urls(leg)
           THEN [exc |-> Raise("Exception", "Unknown endpoint: " \o Join(ep.val)),
                 url |-> <<>>, kwargs |-> SetParams(leg, kwargs, oid)]
         ELSE ListUrl(leg, endpoint, kwargs, oid) :
         ep \in {_set_default(self_endpoint, "endpoint", endpoint, TRUE)} })

\* the result extracted from a response that nothing has checked
CheckAndExtract_unchecked(leg, resp, data_name, verb, userFn) ==
  Only({ [exc |-> res.exc, ret |-> res.ret, data_name |-> res.data_name,
          checked |-> FALSE, chk |-> NoExc] :
         res \in { IF leg THEN legacy_get_result(resp, data_name, verb, userFn)
                  ELSE _get_result(resp, data_name, verb, userFn) } })

\* what follows the HTTP call in get, list, post, put and patch:
\* [exc, ret, data_name, checked, chk]; chk is what _check_response raised
CheckAndExtract(leg, resp, data_name, verb, userFn) ==
  Only({ IF chk # NoExc
           THEN [exc |-> chk, ret |-> NoRet, data_name |-> data_name, checked |-> TRUE,
                 chk |-> chk]
         ELSE Only({ [exc |-> res.exc, ret |-> res.ret, data_name |-> res.data_name,
                      checked |-> TRUE, chk |-> NoExc] :
                     res \in { IF leg THEN legacy_get_result(resp, data_name, verb, userFn)
                              ELSE _get_result(resp, data_name, verb, userFn) } }) :
         chk \in { IF leg THEN legacy_check_response(resp, verb, userFn)
                  ELSE _check_response(resp, verb, userFn) } })

\* a delete that checks every response, the 204 ones too
DeleteOutcome_always_checked(leg, resp, data_name) ==
  CheckAndExtract(leg, resp, data_name, "delete", UserFn)

\* what follows the HTTP call in delete
DeleteOutcome(leg, resp, data_name) ==
  IF resp.status_code = NoContentCode
    THEN [exc |-> NoExc, ret |-> NoRet, data_name |-> data_name, checked |-> FALSE,
          chk |-> NoExc]
  ELSE IF leg
    THEN Only({ [exc |-> chk, ret |-> NoRet, data_name |-> data_name, checked |-> TRUE,
                 chk |-> chk] :
                chk \in {legacy_check_response(resp, "delete", UserFn)} })
  ELSE CheckAndExtract(leg, resp, data_name, "delete", UserFn)

NoOrg == [name |-> "", id |-> 0]

NoCall ==
  [op |-> "", pk |-> PkNone, endpoint |-> <<>>, data_name_arg |-> <<>>,
   kwargs |-> <<>>, org_at_call |-> 0, sent |-> FALSE, req |-> NoRequest,
   resp |-> NoResponse, checked |-> FALSE, check_exc |-> NoExc, exc |-> NoExc,
   ret |-> NoRet,
   data_name |-> <<>>, orgs |-> <<>>, org |-> NoOrg]

\* a CRUD call from its first statement to its return or raise.  prep is the
\* part before the HTTP call, http the HTTP call.
Crud(op, args, prep, http) ==
  /\ \E sent \in {prep.exc = NoExc /\ http.exc = NoExc},
        dn \in {_set_default(self_data_name, "data_name", args.data_name, FALSE).val} :
       \E resp \in (IF sent THEN Responses(http.req, args) ELSE {NoResponse}) :
         \E out \in { IF ~sent
                        THEN [exc |-> IF prep.exc # NoExc THEN prep.exc ELSE http.exc,
                              ret |-> NoRet, data_name |-> dn, checked |-> FALSE,
                              chk |-> NoExc]
                      ELSE IF op = "delete" THEN DeleteOutcome(legacy, resp, dn)
                      ELSE CheckAndExtract(legacy, resp, dn, op, UserFn) } :
           last' = [NoCall EXCEPT !.op = op, !.pk = args.pk, !.endpoint = args.endpoint,
                      !.data_name_arg = args.data_name, !.kwargs = args.kwargs,
                      !.org_at_call = org_id, !.sent = sent,
                      !.req = IF sent THEN http.req ELSE NoRequest,
                      !.resp = resp, !.checked = out.checked, !.check_exc = out.chk,
                      !.exc = out.exc, !.ret = out.ret, !.data_name = out.data_name]
  /\ auth' = IF prep.exc = NoExc THEN http.auth ELSE auth
  /\ pc' = "done"
  /\ UNCHANGED <<legacy, authKind, use_ssl, token, org_id, org_set, apivars, fnvars, servervars>>

\* _get_access_token() is consulted by OAuth clients without a stored token
AccessOutcomes ==
  IF authKind = "oauth" /\ ~Truthy(token) THEN Accesses ELSE {NoneV}

\* ReadMixin.get(pk, endpoint, data_name, **kwargs)
get ==
  /\ pc = "idle"
  /\ \E args \in CallArgs, access \in AccessOutcomes :
       \E prep \in {PkUrl(legacy, args.pk, args.endpoint, args.kwargs, org_id)} :
         \E http \in {_get(prep.url, prep.kwargs, use_ssl, authKind, token, access, auth)} :
           Crud("get", args, prep, http)

\* ReadMixin.list(endpoint, data_name, **kwargs)
list ==
  /\ pc = "idle"
  /\ \E args \in ListArgs, access \in AccessOutcomes :
       \E prep \in {ListUrl(legacy, args.endpoint, args.kwargs, org_id)} :
         \E http \in {_get(prep.url, prep.kwargs, use_ssl, authKind, token, access, auth)} :
           Crud("list", args, prep, http)

\* CreateMixin.post(endpoint, data_name, **kwargs)
post ==
  /\ pc = "idle"
  /\ \E args \in ListArgs, access \in AccessOutcomes :
       \E prep \in {PostUrl(legacy, args.endpoint, args.kwargs, org_id)} :
         \E http \in {_post(prep.url, <<>>, prep.kwargs, use_ssl, TRUE, authKind, token,
                            access, auth)} :
           Crud("post", args, prep, http)

\* UpdateMixin.put(pk, endpoint, data_name, **kwargs)
put ==
  /\ pc = "idle"
  /\ \E args \in CallArgs, access \in AccessOutcomes :
       \E prep \in {PkUrl(legacy, args.pk, args.endpoint, args.kwargs, org_id)} :
         \E http \in {_put(prep.url, <<>>, prep.kwargs, use_ssl, TRUE, authKind, token,
                           access, auth)} :
           Crud("put", args, prep, http)

\* UpdateMixin.patch(pk, endpoint, data_name, **kwargs)
patch ==
  /\ pc = "idle"
  /\ \E args \in CallArgs, access \in AccessOutcomes :
       \E prep \in {PkUrl(legacy, args.pk, args.endpoint, args.kwargs, org_id)} :
         \E http \in {_patch(prep.url, <<>>, prep.kwargs, use_ssl, TRUE, authKind, token,
                             access, auth)} :
           Crud("patch", args, prep, http)

\* DeleteMixin.delete(pk, endpoint, data_name, **kwargs)
delete ==
  /\ pc = "idle"
  /\ \E args \in CallArgs, access \in AccessOutcomes :
       \E prep \in {PkUrl(legacy, args.pk, args.endpoint, args.kwargs, org_id)} :
         \E http \in {_delete(prep.url, prep.kwargs, use_ssl, authKind, token, access, auth)} :
           Crud("delete", args, prep, http)

\* organizations as the server lists them
OrgNames == {"a", "b"}
Orgs == [name : OrgNames, id : 1 .. MaxOrgId]
OrgLists == {<<>>} \cup {<<o>> : o \in Orgs} \cup {<<o1, o2>> : o1 \in Orgs, o2 \in Orgs}

\* the answers to the request of get_organizations
OrgResponses(req) ==
  { Response(200, JsonType, "dict", ("status" :> "success") @@ ("organizations" :> OrgsV),
             req.url, req.method),
    Response(200, JsonType, "dict", ("organizations" :> OrgsV), req.url, req.method),
    Response(200, JsonType, "dict", ("status" :> "success") @@ ("data" :> "Llama!"),
             req.url, req.method),
    Response(200, JsonType, "dict", ("status" :> "error") @@ ("message" :> "No llama!"),
             req.url, req.method),
    Response(404, NoneV, "empty", <<>>, req.url, req.method) }

\* the first organization of the list with the name, NoOrg when there is none
FirstOrg(orgs, org_name) ==
  IF \E i \in DOMAIN orgs : orgs[i].name = org_name
    THEN orgs[CHOOSE i \in DOMAIN orgs :
                /\ orgs[i].name = org_name
                /\ \A j \in 1 .. i - 1 : orgs[j].name # org_name]
    ELSE NoOrg

\* get_org_by_name once get_organizations() has returned or raised: [exc, org]
OrgByName(out, orgs, org_name) ==
  IF out.exc # NoExc THEN [exc |-> out.exc, org |-> NoOrg]
  ELSE IF ~(out.ret.t = "value" /\ out.ret.v = OrgsV)
    THEN [exc |-> Raise("TypeError", "string indices must be integers"), org |-> NoOrg]
  ELSE IF FirstOrg(orgs, org_name) = NoOrg
    THEN [exc |-> Raise("ValueError", "Organization '" \o org_name \o "' not found"),
          org |-> NoOrg]
  ELSE [exc |-> NoExc, org |-> FirstOrg(orgs, org_name)]

\* SeedClient.get_org_by_name(org_name, set_org_id), with the call of
\* get_organizations() it starts with
get_org_by_name ==
  /\ pc = "idle"
  /\ ~legacy
  /\ authKind = "user"
  /\ \E org_name \in OrgNames, set_org_id \in BOOLEAN,
        prep \in {ListUrl(FALSE, EndpointOrganizations, "brief" :> "true", org_id)} :
       \E http \in {_get(prep.url, prep.kwargs, use_ssl, authKind, token, NoneV, auth)} :
         \E sent \in {prep.exc = NoExc /\ http.exc = NoExc} :
           \E resp \in (IF sent THEN OrgResponses(http.req) ELSE {NoResponse}) :
             \E orgs \in (IF OrgsV \in Range(resp.d) THEN OrgLists ELSE {<<>>}),
                out \in { IF ~sent
                            THEN [exc |-> IF prep.exc # NoExc THEN prep.exc ELSE http.exc,
                                  ret |-> NoRet, data_name |-> EndpointOrganizations,
                                  checked |-> FALSE, chk |-> NoExc]
                          ELSE CheckAndExtract(FALSE, resp, EndpointOrganizations, "list",
                                               "get_organizations") } :
               \E found \in {OrgByName(out, orgs, org_name)} :
                 /\ last' = [NoCall EXCEPT !.op = "get_org_by_name",
                               !.endpoint = EndpointOrganizations,
                               !.data_name_arg = EndpointOrganizations,
                               !.kwargs = ("org_name" :> org_name)
                                            @@ ("set_org_id" :> set_org_id),
                               !.org_at_call = org_id, !.sent = sent,
                               !.req = IF sent THEN http.req ELSE NoRequest,
                               !.resp = resp, !.checked = out.checked,
                               !.check_exc = out.chk, !.exc = found.exc,
                               !.ret = IF found.exc = NoExc THEN Ret("org", NoneV, <<>>)
                                       ELSE NoRet,
                               !.data_name = out.data_name, !.orgs = orgs,
                               !.org = found.org]
                 /\ org_id' = IF found.exc = NoExc /\ set_org_id THEN found.org.id
                              ELSE org_id
                 /\ org_set' = IF found.exc = NoExc /\ set_org_id THEN found.org.id
                               ELSE org_set
                 /\ auth' = IF prep.exc = NoExc THEN http.auth ELSE auth
  /\ pc' = "done"
  /\ UNCHANGED <<legacy, authKind, use_ssl, token, apivars, fnvars, servervars>>

\* the caller takes the result or the exception and goes on
Return ==
  /\ pc = "done"
  /\ pc' = "idle"
  /\ last' = NoCall
  /\ UNCHANGED <<legacy, authKind, use_ssl, token, auth, org_id, org_set, apivars, fnvars, servervars>>

----------------------------------------------------------------------------
(* pyseed.apibase: a BaseAPI (or JSONAPI) object used directly, as the     *)
(* tests of pyseed.apibase use it.  Calls are made without files, and the  *)
(* object has no auth.                                                     *)

\* the attributes of a BaseAPI object: self.url (<<>> for None), self.use_ssl
\* (TrueV, FalseV or NoneV), self.use_json, self.compulsory_params and, in
\* attrs, the attributes the subclass or the caller has set on the object
BaseAPIObject(url, ssl, use_json, compulsory, attrs) ==
  [url |-> url, use_ssl |-> ssl, use_json |-> use_json,
   compulsory_params |-> compulsory, attrs |-> attrs]

NoApi == BaseAPIObject(<<>>, NoneV, FALSE, <<>>, <<>>)

\* BaseAPI._construct_url with the use_ssl argument of the call taking priority
BaseAPI_construct_url_call_first(self, urlstring, use_ssl_arg) ==
  IF urlstring = <<>> /\ self.url # <<>>
    THEN [exc |-> NoExc, url |-> self.url]
  ELSE _construct_url(urlstring,
                      Truthy(IF use_ssl_arg # NoneV THEN use_ssl_arg ELSE self.use_ssl))

\* BaseAPI._construct_url(urlstring, use_ssl) of any object: [exc, url].
\* self.use_ssl takes priority over the argument.
BaseAPI_construct_url(self, urlstring, use_ssl_arg) ==
  IF urlstring = <<>> /\ self.url # <<>>
    THEN [exc |-> NoExc, url |-> self.url]
  ELSE _construct_url(urlstring,
                      Truthy(IF self.use_ssl # NoneV THEN self.use_ssl ELSE use_ssl_arg))

\* BaseAPI.__init__(url, use_ssl, use_json, compulsory_params=..., **attrs):
\* [exc, self].  JSONAPI.__init__ is the same with use_json=True.
BaseAPI_init(url, ssl, use_json, compulsory, attrs) ==
  Only({ [exc |-> cu.exc,
          self |-> BaseAPIObject(cu.url, ssl, use_json, compulsory, attrs)] :
         cu \in { IF url # <<>>
                    THEN BaseAPI_construct_url(BaseAPIObject(<<>>, ssl, use_json, <<>>, <<>>),
                                               url, NoneV)
                  ELSE [exc |-> NoExc, url |-> <<>>] } })

\* BaseAPI._construct_payload(params) of an object with compulsory_params:
\* [exc, params]
RECURSIVE BaseAPI_construct_payload_compulsory(_, _, _)
BaseAPI_construct_payload_compulsory(compulsory, attrs, params) ==
  IF compulsory = <<>> THEN [exc |-> NoExc, params |-> params]
  ELSE IF Head(compulsory) \in DOMAIN params
    THEN BaseAPI_construct_payload_compulsory(Tail(compulsory), attrs, params)
  ELSE IF Head(compulsory) \in DOMAIN attrs
    THEN BaseAPI_construct_payload_compulsory(
           Tail(compulsory), attrs,
           (Head(compulsory) :> attrs[Head(compulsory)]) @@ params)
  ELSE [exc |-> APIClientError(Head(compulsory) \o " is a compulsory field"),
        params |-> params]

\* BaseAPI._get and BaseAPI._delete of the object self: [exc, req]
ApiQuery(method, self, url, use_ssl_arg, kwargs) ==
  Only({ IF cu.exc # NoExc THEN [exc |-> cu.exc, req |-> NoRequest]
         ELSE IF cp.exc # NoExc THEN [exc |-> cp.exc, req |-> NoRequest]
         ELSE [exc |-> NoExc,
               req |-> Request(method, cu.url, DictPop(cp.params, "headers"),
                               DictGet(cp.params, "headers", NoHeaders), "", NoBody,
                               NoneV)] :
         cu \in {BaseAPI_construct_url(self, url, use_ssl_arg)},
         cp \in {BaseAPI_construct_payload_compulsory(self.compulsory_params,
                                                      self.attrs, kwargs)} })

\* BaseAPI._post, BaseAPI._put and BaseAPI._patch of the object self: [exc, req].
\* params is the params argument ({} when it is None or empty).
ApiBody(method, self, url, use_ssl_arg, params, kwargs) ==
  Only({ IF cu.exc # NoExc THEN [exc |-> cu.exc, req |-> NoRequest]
         ELSE IF cp.exc # NoExc THEN [exc |-> cp.exc, req |-> NoRequest]
         ELSE [exc |-> NoExc,
               req |-> Request(method, cu.url,
                               DictPop(kwargs, key) @@ DictPop(cp.params, "headers"),
                               DictGet(cp.params, "headers", NoHeaders), key,
                               IF DictGet(kwargs, key, NoBody) # NoBody
                                 THEN kwargs[key] ELSE DictPop(kwargs, key),
                               NoneV)] :
         cu \in {BaseAPI_construct_url(self, url, use_ssl_arg)},
         cp \in {BaseAPI_construct_payload_compulsory(self.compulsory_params,
                                                      self.attrs, params)},
         key \in {IF self.use_json THEN "json" ELSE "data"} })

\* the urls given to the constructor and to the calls: none, and example.org
\* bare, with http:// and with https://
ApiUrls ==
  {<<>>, BaseUrlArg, HttpPrefix \o BaseUrlArg, HttpsPrefix \o BaseUrlArg}

ApiSsl == {TrueV, FalseV, NoneV}

\* compulsory_params of the objects
ApiCompulsory == {<<>>, <<"id">>, <<"id", "comp">>}

\* further attributes of the objects
ApiAttrs == {<<>>, "comp" :> "1"}

\* the params argument of _post, _put and _patch
ApiParams == {<<>>, "id" :> "1", ("id" :> "1") @@ ("comp" :> "2")}

\* the keyword arguments of a call
ApiKwargs ==
  { <<>>,
    "id" :> "7",
    ("foo" :> "bar") @@ ("test" :> "test"),
    ("foo" :> "bar") @@ ("json" :> ("more" :> "data")) }

NoApiCall ==
  [op |-> "", url |-> <<>>, use_ssl |-> NoneV, params |-> <<>>, kwargs |-> <<>>,
   exc |-> NoExc, sent |-> FALSE, req |-> NoRequest]

\* a call on the object from its first statement to its return or raise
ApiCall(op, url, use_ssl_arg, params, kwargs, http) ==
  /\ call' = [op |-> op, url |-> url, use_ssl |-> use_ssl_arg, params |-> params,
              kwargs |-> kwargs, exc |-> http.exc, sent |-> http.exc = NoExc,
              req |-> http.req]
  /\ pc' = "done"
  /\ UNCHANGED <<seedvars, api, fnvars, servervars>>

\* BaseAPI._get(url, use_ssl, **kwargs)
BaseAPI_get ==
  /\ pc = "idle"
  /\ \E url \in ApiUrls, ssl \in ApiSsl, kwargs \in ApiKwargs :
       \E http \in {ApiQuery("GET", api, url, ssl, kwargs)} :
         ApiCall("_get", url, ssl, <<>>, kwargs, http)

\* BaseAPI._delete(url, use_ssl, **kwargs)
BaseAPI_delete ==
  /\ pc = "idle"
  /\ \E url \in ApiUrls, ssl \in ApiSsl, kwargs \in ApiKwargs :
       \E http \in {ApiQuery("DELETE", api, url, ssl, kwargs)} :
         ApiCall("_delete", url, ssl, <<>>, kwargs, http)

\* BaseAPI._post(url, use_ssl, params, **kwargs)
BaseAPI_post ==
  /\ pc = "idle"
  /\ \E url \in ApiUrls, ssl \in ApiSsl, params \in ApiParams, kwargs \in ApiKwargs :
       \E http \in {ApiBody("POST", api, url, ssl, params, kwargs)} :
         ApiCall("_post", url, ssl, params, kwargs, http)

\* BaseAPI._put(url, use_ssl, params, **kwargs)
BaseAPI_put ==
  /\ pc = "idle"
  /\ \E url \in ApiUrls, ssl \in ApiSsl, params \in ApiParams, kwargs \in ApiKwargs :
       \E http \in {ApiBody("PUT", api, url, ssl, params, kwargs)} :
         ApiCall("_put", url, ssl, params, kwargs, http)

\* BaseAPI._patch(url, use_ssl, params, **kwargs)
BaseAPI_patch ==
  /\ pc = "idle"
  /\ \E url \in ApiUrls, ssl \in ApiSsl, params \in ApiParams, kwargs \in ApiKwargs :
       \E http \in {ApiBody("PATCH", api, url, ssl, params, kwargs)} :
         ApiCall("_patch", url, ssl, params, kwargs, http)

\* the caller constructs another object: BaseAPI(url, use_ssl, use_json, ...).
\* When the constructor raises, the caller is left with the object it had.
BaseAPI_construct ==
  /\ pc = "idle"
  /\ \E url \in ApiUrls, ssl \in ApiSsl, use_json \in BOOLEAN,
        compulsory \in ApiCompulsory, attrs \in ApiAttrs :
       \E made \in {BaseAPI_init(url, ssl, use_json, compulsory, attrs)} :
         /\ call' = [NoApiCall EXCEPT !.op = "__init__", !.url = url, !.use_ssl = ssl,
                                      !.exc = made.exc]
         /\ api' = IF made.exc = NoExc THEN made.self ELSE api
  /\ pc' = "done"
  /\ UNCHANGED <<seedvars, fnvars, servervars>>

\* the caller takes the response or the exception and goes on
ApiReturn ==
  /\ pc = "done"
  /\ pc' = "idle"
  /\ call' = NoApiCall
  /\ UNCHANGED <<seedvars, api, fnvars, servervars>>

\* no SEED client is in use
NoSeedClient ==
  /\ legacy = FALSE /\ authKind = "user" /\ use_ssl = TRUE /\ token = NoneV
  /\ auth = NoneV /\ org_id = 1 /\ org_set = 0
  /\ last = NoCall

\* no single function is under study, and no SEED server is in use
NoFunction ==
  /\ fn_args = <<>> /\ fn_result = <<>>
  /\ server = <<>> /\ cycle_id = 0 /\ hist = <<>>

\* the object after construction: JSONAPI('example.org'), as the tests set it up
ApiInit ==
  /\ api = BaseAPI_init(BaseUrlArg, TrueV, TRUE, <<>>, <<>>).self
  /\ call = NoApiCall
  /\ NoSeedClient
  /\ NoFunction
  /\ pc = "idle"

ApiNext ==
  \/ BaseAPI_get \/ BaseAPI_delete \/ BaseAPI_post \/ BaseAPI_put \/ BaseAPI_patch
  \/ BaseAPI_construct \/ ApiReturn

ApiSpec == ApiInit /\ [][ApiNext]_vars

----------------------------------------------------------------------------
(* pyseed.apibase.add_pk, called on its own *)

\* the arguments: the url without and with a trailing slash; as pk the
\* primary keys of the CRUD calls and the strings '', '0' and '1a'
AddPkArgs ==
  [url : {<<"u", "r", "l">>, <<"u", "r", "l", "/">>},
   pk : Pks \cup {PkStr(<<>>), PkStr(<<"0">>), PkStr(<<"1", "a">>)},
   required : BOOLEAN,
   slash : BOOLEAN]

\* no object of pyseed.apibase is in use
NoApiObject == api = NoApi /\ call = NoApiCall

\* the arguments of the call to come
AddPkInit ==
  /\ fn_args \in AddPkArgs
  /\ fn_result = <<>>
  /\ server = <<>> /\ cycle_id = 0 /\ hist = <<>>
  /\ NoSeedClient
  /\ NoApiObject
  /\ pc = "idle"

\* add_pk(url, pk, required, slash) returns or raises
call_add_pk ==
  /\ pc = "idle"
  /\ fn_result' = add_pk(fn_args.url, fn_args.pk, fn_args.required, fn_args.slash)
  /\ pc' = "done"
  /\ UNCHANGED <<seedvars, apivars, fn_args, servervars>>

AddPkSpec == AddPkInit /\ [][call_add_pk]_vars

----------------------------------------------------------------------------
(* pyseed.seed_client_base: the constructor of a client class, called on   *)
(* its own.  The class may set endpoint and data_name as class attributes. *)

Localhost == <<"l", "o", "c", "a", "l", "h", "o", "s", "t">>

\* SEEDBaseClient.__init__(org_id, endpoint, data_name, base_url, port,
\* url_map) of a class with the class attributes cls_endpoint and
\* cls_data_name: the attributes endpoint, data_name, base_url and urls
SEEDBaseClient_init(cls_endpoint, cls_data_name, endpoint, data_name, base, port, url_map) ==
  Only({ [endpoint |-> IF cls_endpoint = <<>> THEN endpoint ELSE cls_endpoint,
          data_name |-> IF cls_data_name = <<>> THEN data_name ELSE cls_data_name,
          base_url |-> b,
          urls |-> _get_urls(b, url_map)] :
         b \in { Only({ IF ~endswith(withPort, <<"/">>) THEN withPort \o <<"/">>
                        ELSE withPort :
                        withPort \in { (IF base # <<>> THEN base ELSE Localhost)
                                         \o (IF port # <<>> THEN <<":">> \o port
                                             ELSE <<>>) } }) } })

\* the arguments of the constructor and the class attributes: each of
\* endpoint and data_name absent or set, base_url absent, bare or ending in
\* '/', port absent or set
InitArgs ==
  [cls_endpoint : {<<>>, self_endpoint},
   cls_data_name : {<<>>, AllName},
   endpoint : {<<>>, EndpointOrganizations},
   data_name : {<<>>, <<"t", "e", "s", "t">>},
   base_url : {<<>>, BaseUrlArg, BaseUrlArg \o <<"/">>},
   port : {<<>>, PortArg},
   url_map : {URLS}]

\* the arguments of the constructor call to come
InitInit ==
  /\ fn_args \in InitArgs
  /\ fn_result = <<>>
  /\ server = <<>> /\ cycle_id = 0 /\ hist = <<>>
  /\ NoSeedClient
  /\ NoApiObject
  /\ pc = "idle"

\* the client is constructed
call_init ==
  /\ pc = "idle"
  /\ fn_result' = SEEDBaseClient_init(fn_args.cls_endpoint, fn_args.cls_data_name,
                                      fn_args.endpoint, fn_args.data_name,
                                      fn_args.base_url, fn_args.port, fn_args.url_map)
  /\ pc' = "done"
  /\ UNCHANGED <<seedvars, apivars, fn_args, servervars>>

InitSpec == InitInit /\ [][call_init]_vars

----------------------------------------------------------------------------
(* pyseed.seed_client: the SeedClient calls that create cycles and          *)
(* organizations, against a SEED server.  The server keeps what it is sent  *)
(* and hands out ids in order; any request may fail, and then the CRUD      *)
(* method of the client raises and the server is left as it was.  Only     *)
(* this client changes the server.                                          *)

MaxCycles == 2     \* the calls stop when the server holds MaxCycles + 1 cycles
MaxOrgs == 2       \* the calls stop when the server holds MaxOrgs + 1 organizations

\* names of cycles, and of organizations (spelled out: their case matters)
CycleNames == {"2021", "2022"}
ServerOrgNames == {<<"O", "r", "g">>, <<"O", "R", "G">>, <<"L", "a", "b">>}

\* str.lower() on the letters of the names and of the cells
lower(s) ==
  [i \in DOMAIN s |->
     IF s[i] \in {"O", "R", "G", "L", "T", "U", "E", "F", "P", "D"}
       THEN ("O" :> "o" @@ "R" :> "r" @@ "G" :> "g" @@ "L" :> "l"
               @@ "T" :> "t" @@ "U" :> "u" @@ "E" :> "e" @@ "F" :> "f"
               @@ "P" :> "p" @@ "D" :> "d")[s[i]]
       ELSE s[i]]

\* what the CRUD method of the client raises when the request fails
HttpFailed == Raise("SEEDError", "the request failed")

\* the cycle or organization the server creates on a POST, and the server then
Created(srv, name) == [name |-> name, id |-> Len(srv) + 1]
Posted(srv, name) == Append(srv, Created(srv, name))

\* the first of the list with the name, NoOrg when there is none
FirstNamed(srv, name) ==
  IF \E i \in DOMAIN srv : srv[i].name = name
    THEN srv[CHOOSE i \in DOMAIN srv :
               srv[i].name = name /\ \A j \in 1 .. i - 1 : srv[j].name # name]
    ELSE NoOrg

\* the outcome of a call: [exc, ret, posts, server]
Outcome(exc, ret, posts, srv) == [exc |-> exc, ret |-> ret, posts |-> posts, server |-> srv]

\* create_cycle that posts without looking for the name
create_cycle_unchecked(srv, cycle_name, ok_list, ok_post) ==
  IF ~ok_list \/ ~ok_post THEN Outcome(HttpFailed, NoOrg, IF ok_list THEN 1 ELSE 0, srv)
  ELSE Outcome(NoExc, Created(srv, cycle_name), 1, Posted(srv, cycle_name))

\* SeedClient.create_cycle(cycle_name, start_date, end_date); ok_list and
\* ok_post tell whether the requests of get_cycles() and of post() succeed
create_cycle(srv, cycle_name, ok_list, ok_post) ==
  IF ~ok_list THEN Outcome(HttpFailed, NoOrg, 0, srv)
  ELSE IF \E i \in DOMAIN srv : srv[i].name = cycle_name
    THEN Outcome(Raise("Exception", "A cycle with this name already exists: '"
                                      \o cycle_name \o "'"),
                 NoOrg, 0, srv)
  ELSE IF ~ok_post THEN Outcome(HttpFailed, NoOrg, 1, srv)
  ELSE Outcome(NoExc, Created(srv, cycle_name), 1, Posted(srv, cycle_name))

\* get_or_create_cycle that creates without looking for the name
get_or_create_cycle_always(srv, cycle_name, ok_first, ok_list, ok_post) ==
  IF ~ok_first THEN Outcome(HttpFailed, NoOrg, 0, srv)
  ELSE create_cycle_unchecked(srv, cycle_name, ok_list, ok_post)

\* SeedClient.get_or_create_cycle(cycle_name, start_date, end_date,
\* set_cycle_id) up to the setting of cycle_id; ok_first tells whether the
\* request of its own get_cycles() succeeds
get_or_create_cycle(srv, cycle_name, ok_first, ok_list, ok_post) ==
  IF ~ok_first THEN Outcome(HttpFailed, NoOrg, 0, srv)
  ELSE IF \E i \in DOMAIN srv : srv[i].name = cycle_name
    THEN Outcome(NoExc, FirstNamed(srv, cycle_name), 0, srv)
  ELSE create_cycle(srv, cycle_name, ok_list, ok_post)

\* create_organization that compares the names as they are
create_organization_exact(srv, org_name, ok_list, ok_users, ok_post) ==
  IF ~ok_list THEN Outcome(HttpFailed, NoOrg, 0, srv)
  ELSE IF \E i \in DOMAIN srv : srv[i].name = org_name
    THEN Outcome(Raise("Exception", "Organization '" \o Join(org_name)
                                      \o "' already exists"),
                 NoOrg, 0, srv)
  ELSE IF ~ok_users THEN Outcome(HttpFailed, NoOrg, 0, srv)
  ELSE IF ~ok_post THEN Outcome(HttpFailed, NoOrg, 1, srv)
  ELSE Outcome(NoExc, Created(srv, org_name), 1, Posted(srv, org_name))

\* SeedClient.create_organization(org_name); ok_list, ok_users and ok_post
\* tell whether the requests of get_organizations(), of get_users() and of
\* post() succeed
create_organization(srv, org_name, ok_list, ok_users, ok_post) ==
  IF ~ok_list THEN Outcome(HttpFailed, NoOrg, 0, srv)
  ELSE IF \E i \in DOMAIN srv : lower(srv[i].name) = lower(org_name)
    THEN Outcome(Raise("Exception", "Organization '" \o Join(org_name)
                                      \o "' already exists"),
                 NoOrg, 0, srv)
  ELSE IF ~ok_users THEN Outcome(HttpFailed, NoOrg, 0, srv)
  ELSE IF ~ok_post THEN Outcome(HttpFailed, NoOrg, 1, srv)
  ELSE Outcome(NoExc, Created(srv, org_name), 1, Posted(srv, org_name))

\* the record of a call: what was called with which name, its outcome, and
\* the server as it was before the call
Called(op, name, out) ==
  [op |-> op, name |-> name, exc |-> out.exc, ret |-> out.ret, posts |-> out.posts,
   before |-> server]

\* a call has returned or raised: out is its outcome
ServerCall(op, name, out, bound, new_cycle_id) ==
  /\ Len(out.server) <= bound + 1
  /\ server' = out.server
  /\ hist' = IF hist = <<>> THEN <<Called(op, name, out)>>
             ELSE <<Called(op, name, out), hist[1]>>
  /\ cycle_id' = new_cycle_id
  /\ UNCHANGED <<seedvars, pc, apivars, fn_args, fn_result>>

\* SeedClient.create_cycle
call_create_cycle ==
  /\ pc = "idle"
  /\ \E name \in CycleNames, ok_list \in BOOLEAN, ok_post \in BOOLEAN :
       ServerCall("create_cycle", name, create_cycle(server, name, ok_list, ok_post),
                  MaxCycles, cycle_id)

\* SeedClient.get_or_create_cycle
call_get_or_create_cycle ==
  /\ pc = "idle"
  /\ \E name \in CycleNames, set_cycle_id \in BOOLEAN,
        ok_first \in BOOLEAN, ok_list \in BOOLEAN, ok_post \in BOOLEAN :
       \E out \in {get_or_create_cycle(server, name, ok_first, ok_list, ok_post)} :
         ServerCall("get_or_create_cycle", name, out, MaxCycles,
                    IF out.exc = NoExc /\ set_cycle_id THEN out.ret.id ELSE cycle_id)

\* SeedClient.create_organization
call_create_organization ==
  /\ pc = "idle"
  /\ \E name \in ServerOrgNames,
        ok_list \in BOOLEAN, ok_users \in BOOLEAN, ok_post \in BOOLEAN :
       ServerCall("create_organization", name,
                  create_organization(server, name, ok_list, ok_users, ok_post),
                  MaxOrgs, cycle_id)

\* a new client, and no other client or function in use
NewSeedClient ==
  /\ cycle_id = 0
  /\ hist = <<>>
  /\ fn_args = <<>> /\ fn_result = <<>>
  /\ NoSeedClient
  /\ NoApiObject
  /\ pc = "idle"

\* a server that holds no cycle, one, or two, which may have the same name
CycleInit ==
  /\ server \in {<<>>} \cup {<<[name |-> n, id |-> 1]>> : n \in CycleNames}
                \cup {<<[name |-> n, id |-> 1], [name |-> m, id |-> 2]>> :
                        n \in CycleNames, m \in CycleNames}
  /\ NewSeedClient

CycleSpec == CycleInit /\ [][call_create_cycle \/ call_get_or_create_cycle]_vars

\* a server that holds no organization, or one
OrgInit ==
  /\ server \in {<<>>} \cup {<<[name |-> n, id |-> 1]>> : n \in ServerOrgNames}
  /\ NewSeedClient

OrgSpec == OrgInit /\ [][call_create_organization]_vars

----------------------------------------------------------------------------
(* SeedClient.track_progress_result: pyseed.seed_client.  server is the     *)
(* background job on the SEED server, hist the outcomes of the polls made   *)
(* so far, one per frame of the recursion.                                  *)

\* the depth at which the interpreter refuses one more call of
\* track_progress_result by itself (sys.getrecursionlimit())
RecursionLimit == 3

\* the progress keys track_progress_result is called with
ProgressKeys == {<<>>, <<"k">>}

\* a job on the server: its status ('not-started', 'parsing', 'success',
\* 'error', 'warning') and its progress in percent
Jobs ==
  [status : {"not-started", "parsing"}, progress : {0, 50, 100}]
    \cup [status : {"success", "error", "warning"}, progress : {100}]
    \cup [status : {"error"}, progress : {50}]

\* what a job may have become by the next poll: a job that has ended stays
\* as it is, a running one may have advanced or ended
JobNext(job) ==
  IF job.status \notin {"not-started", "parsing"} THEN {job}
  ELSE { j \in Jobs : j.progress >= job.progress /\ j.status # "not-started" } \cup {job}

\* self.urls["progress"] with PROGRESS_KEY replaced by the key
ProgressUrl(key) ==
  HttpsPrefix \o rstrip(base_url, Slash)
    \o <<"/", "a", "p", "i", "/", "v", "3", "/", "p", "r", "o", "g", "r", "e", "s", "s", "/">>
    \o key \o <<"/">>

\* the answers to a poll: the progress of the job, an internal error of the
\* server, or a page that is not JSON
ProgressResponses(job, key) ==
  { Response(200, JsonType, "dict",
             ("status" :> job.status) @@ ("progress" :> job.progress)
               @@ ("progress_key" :> Join(key)),
             ProgressUrl(key), "GET"),
    Response(500, JsonType, "dict", "message" :> "Server Error", ProgressUrl(key), "GET"),
    Response(200, TextType, "invalid", <<>>, ProgressUrl(key), "GET") }

\* what the interpreter raises when the recursion is too deep
RecursionError == Raise("RecursionError", "maximum recursion depth exceeded")

\* requests could not reach the server
ConnectionError == Raise("ConnectionError", "Connection refused")

\* self.client.get(None, required_pk=False, endpoint="progress", url_args=...)
\* once the response is there: [exc, ret]
get_progress(resp) ==
  Only({ [exc |-> out.exc, ret |-> out.ret] :
         out \in {CheckAndExtract(FALSE, resp, <<>>, "get", "track_progress_result")} })

\* a poll without the except clause: what self.client.get raises goes to the
\* caller
track_progress_poll_uncaught(got) ==
  IF got.exc # NoExc
    THEN [exc |-> got.exc, ret |-> NoRet, again |-> FALSE]
  ELSE IF got.ret.t = "dict" /\ got.ret.d = <<>>
    THEN [exc |-> NoExc, ret |-> NoRet, again |-> TRUE]
  ELSE IF got.ret.t # "dict" \/ "progress" \notin DOMAIN got.ret.d
    THEN [exc |-> Raise("KeyError", "progress"), ret |-> NoRet, again |-> FALSE]
  ELSE IF got.ret.d["progress"] = 100
    THEN [exc |-> NoExc, ret |-> got.ret, again |-> FALSE]
  ELSE [exc |-> NoExc, ret |-> NoRet, again |-> TRUE]

\* the poll of track_progress_result and what it decides: got is what
\* self.client.get returned or raised.  [exc, ret, again]
track_progress_poll(got) ==
  IF got.exc # NoExc
    THEN [exc |-> NoExc, ret |-> NoRet, again |-> TRUE]
  ELSE IF got.ret.t = "dict" /\ got.ret.d = <<>>
    THEN [exc |-> NoExc, ret |-> NoRet, again |-> TRUE]
  ELSE IF got.ret.t # "dict" \/ "progress" \notin DOMAIN got.ret.d
    THEN [exc |-> Raise("KeyError", "progress"), ret |-> NoRet, again |-> FALSE]
  ELSE IF got.ret.d["progress"] = 100
    THEN [exc |-> NoExc, ret |-> got.ret, again |-> FALSE]
  ELSE [exc |-> NoExc, ret |-> NoRet, again |-> TRUE]

\* track_progress_result is called: without a key it raises at once
call_track_progress_result ==
  /\ pc = "idle"
  /\ \E key \in ProgressKeys :
       /\ fn_args' = <<key>>
       /\ IF key = <<>>
            THEN /\ fn_result' = [exc |-> Raise("Exception", "No progress key provided"),
                                  ret |-> NoRet]
                 /\ pc' = "done"
            ELSE /\ fn_result' = fn_result
                 /\ pc' = "poll"
  /\ UNCHANGED <<seedvars, apivars, servervars>>

\* one poll of the progress endpoint
poll_progress ==
  /\ pc = "poll"
  /\ \E got \in {[exc |-> ConnectionError, ret |-> NoRet]}
                  \cup { get_progress(resp) : resp \in ProgressResponses(server, fn_args[1]) } :
       \E out \in {track_progress_poll(got)} :
         /\ hist' = Append(hist, got)
         /\ IF out.again
              THEN pc' = "sleep" /\ fn_result' = fn_result
              ELSE pc' = "done" /\ fn_result' = [exc |-> out.exc, ret |-> out.ret]
  /\ UNCHANGED <<seedvars, apivars, fn_args, server, cycle_id>>

\* time.sleep(2), then track_progress_result calls itself; the job goes on
\* in the meantime
sleep_and_recurse ==
  /\ pc = "sleep"
  /\ server' \in JobNext(server)
  /\ IF Len(hist) >= RecursionLimit
       THEN /\ fn_result' = [exc |-> RecursionError, ret |-> NoRet]
            /\ pc' = "done"
       ELSE /\ fn_result' = fn_result
            /\ pc' = "poll"
  /\ UNCHANGED <<seedvars, apivars, fn_args, cycle_id, hist>>

\* a client that is about to track a job, which is in any of its states
PollInit ==
  /\ server \in Jobs
  /\ NewSeedClient

PollSpec ==
  PollInit /\ [][call_track_progress_result \/ poll_progress \/ sleep_and_recurse]_vars

----------------------------------------------------------------------------
(* SeedClient.upload_and_match_datafile: pyseed.seed_client.  fn_args holds  *)
(* its argument import_meters_if_exist and its local variables, hist the    *)
(* requests it has issued and the returns of track_progress_result, in      *)
(* order.  The responses are well formed: an upload carries                 *)
(* 'import_file_id', a mapping profile carries 'mappings'.                  *)

\* the ids the server gives to import files
ImportFileIds == {1, 2}

\* the progress keys the server gives to background jobs
JobKeys == {"key1", "key2"}

\* the matching summaries the server may return
MatchingResults == {"summary1", "summary2"}

\* a request of self.client: the CRUD method, the endpoint, the import file
\* it is about (0: none), the progress key or the value the response carries,
\* and whether the method returned (ok) or raised
Req(verb, endpoint, file, key, val, ok) ==
  [verb |-> verb, endpoint |-> endpoint, file |-> file, key |-> key, val |-> val, ok |-> ok]

\* a call of track_progress_result with a key, which returned (ok) or raised
Tracked(key, ok) == Req("track_progress_result", "progress", 0, key, NoneV, ok)

\* the local variables when the method is entered
Locals(import_meters_if_exist) ==
  [import_meters_if_exist |-> import_meters_if_exist, import_file_id |-> 0,
   progress_key |-> NoneV, matching_results |-> NoneV]

\* the method goes on to its next statement
Proceed(events, locals, next) ==
  /\ hist' = hist \o events
  /\ fn_args' = locals
  /\ pc' = next
  /\ UNCHANGED <<seedvars, apivars, fn_result, server, cycle_id>>

\* an exception leaves the method
Fail(events, exc) ==
  /\ hist' = hist \o events
  /\ fn_result' = [exc |-> exc, ret |-> NoneV]
  /\ pc' = "done"
  /\ UNCHANGED <<seedvars, apivars, fn_args, server, cycle_id>>

\* return matching_results
Finish(events, locals) ==
  /\ hist' = hist \o events
  /\ fn_args' = locals
  /\ fn_result' = [exc |-> NoExc, ret |-> locals.matching_results]
  /\ pc' = "done"
  /\ UNCHANGED <<seedvars, apivars, server, cycle_id>>

\* a POST that starts a background job on an import file: the response
\* carries a progress key, or none
StartJob(endpoint, file, next) ==
  \/ \E key \in JobKeys \cup {NoneV} :
       Proceed(<<Req("post", endpoint, file, key, NoneV, TRUE)>>,
               [fn_args EXCEPT !.progress_key = key], next)
  \/ Fail(<<Req("post", endpoint, file, NoneV, NoneV, FALSE)>>, HttpFailed)

\* a method that goes on without waiting for the job
TrackJob_skipped(next) ==
  Proceed(<<>>, fn_args, next)

\* result = self.track_progress_result(progress_key)
TrackJob(next) ==
  IF fn_args.progress_key = NoneV
    THEN Fail(<<>>, Raise("Exception", "No progress key provided"))
  ELSE \/ Proceed(<<Tracked(fn_args.progress_key, TRUE)>>, fn_args, next)
       \/ Fail(<<Tracked(fn_args.progress_key, FALSE)>>, RecursionError)

call_upload_and_match_datafile ==
  /\ pc = "idle"
  /\ \E import_meters_if_exist \in BOOLEAN :
       Proceed(<<>>, Locals(import_meters_if_exist), "get_or_create_dataset")

\* dataset = self.get_or_create_dataset(dataset_name); dataset["id"]
get_or_create_dataset ==
  /\ pc = "get_or_create_dataset"
  /\ \/ Fail(<<Req("list", "datasets", 0, NoneV, NoneV, FALSE)>>, HttpFailed)
     \/ Proceed(<<Req("list", "datasets", 0, NoneV, NoneV, TRUE)>>, fn_args, "upload_datafile")
     \/ Fail(<<Req("list", "datasets", 0, NoneV, NoneV, TRUE),
               Req("post", "datasets", 0, NoneV, NoneV, FALSE)>>, HttpFailed)
     \/ Fail(<<Req("list", "datasets", 0, NoneV, NoneV, TRUE),
               Req("post", "datasets", 0, NoneV, "complete", TRUE)>>,
             Raise("KeyError", "id"))
     \/ Fail(<<Req("list", "datasets", 0, NoneV, NoneV, TRUE),
               Req("post", "datasets", 0, NoneV, "success", TRUE),
               Req("get", "datasets", 0, NoneV, NoneV, FALSE)>>, HttpFailed)
     \/ Proceed(<<Req("list", "datasets", 0, NoneV, NoneV, TRUE),
                  Req("post", "datasets", 0, NoneV, "success", TRUE),
                  Req("get", "datasets", 0, NoneV, NoneV, TRUE)>>, fn_args, "upload_datafile")

\* result = self.upload_datafile(...); import_file_id = result["import_file_id"]
upload_datafile ==
  /\ pc = "upload_datafile"
  /\ \/ \E id \in ImportFileIds :
          Proceed(<<Req("post", "upload", id, NoneV, NoneV, TRUE)>>,
                  [fn_args EXCEPT !.import_file_id = id], "start_save_data")
     \/ Fail(<<Req("post", "upload", 0, NoneV, NoneV, FALSE)>>, HttpFailed)
     \/ Fail(<<>>, Raise("FileNotFoundError", "No such file or directory"))

\* result = self.start_save_data(import_file_id, multiple_cycle_upload)
start_save_data ==
  /\ pc = "start_save_data"
  /\ StartJob("import_files_start_save_data_pk", fn_args.import_file_id, "track_save_data")

track_save_data ==
  /\ pc = "track_save_data"
  /\ TrackJob("create_or_update_column_mapping_profile_from_file")

\* result = self.create_or_update_column_mapping_profile_from_file(...): the
\* profile is looked up, then updated if there is one and created if not
create_or_update_column_mapping_profile_from_file ==
  /\ pc = "create_or_update_column_mapping_profile_from_file"
  /\ \/ Fail(<<>>, Raise("Exception", "Could not find mapping file"))
     \/ Fail(<<Req("post", "column_mapping_profiles_filter", 0, NoneV, NoneV, FALSE)>>,
             HttpFailed)
     \/ \E verb \in {"post", "put"}, ok \in BOOLEAN :
          \E events \in {<<Req("post", "column_mapping_profiles_filter", 0, NoneV, NoneV, TRUE),
                           Req(verb, "column_mapping_profiles", 0, NoneV, NoneV, ok)>>} :
            IF ok THEN Proceed(events, fn_args, "set_import_file_column_mappings")
            ELSE Fail(events, HttpFailed)

\* result = self.set_import_file_column_mappings(import_file_id, result["mappings"])
set_import_file_column_mappings ==
  /\ pc = "set_import_file_column_mappings"
  /\ \E ok \in BOOLEAN :
       \E events \in {<<Req("post", "org_column_mapping_import_file",
                            fn_args.import_file_id, NoneV, NoneV, ok)>>} :
         IF ok THEN Proceed(events, fn_args, "start_map_data")
         ELSE Fail(events, HttpFailed)

\* result = self.start_map_data(import_file_id)
start_map_data ==
  /\ pc = "start_map_data"
  /\ StartJob("import_files_start_map_data_pk", fn_args.import_file_id, "track_map_data")

track_map_data ==
  /\ pc = "track_map_data"
  /\ TrackJob("start_system_matching_and_geocoding")

\* result = self.start_system_matching_and_geocoding(import_file_id); the
\* progress key is taken from result['progress_data']
start_system_matching_and_geocoding ==
  /\ pc = "start_system_matching_and_geocoding"
  /\ \/ StartJob("import_files_start_matching_pk", fn_args.import_file_id, "track_matching")
     \/ Fail(<<Req("post", "import_files_start_matching_pk", fn_args.import_file_id,
                   NoneV, NoneV, TRUE)>>,
             Raise("AttributeError", "'NoneType' object has no attribute 'get'"))

track_matching ==
  /\ pc = "track_matching"
  /\ TrackJob("get_matching_results")

\* matching_results = self.get_matching_results(import_file_id), and the
\* return when import_meters_if_exist is false
get_matching_results ==
  /\ pc = "get_matching_results"
  /\ \/ \E val \in MatchingResults :
          \E events \in {<<Req("get", "import_files_matching_results",
                               fn_args.import_file_id, NoneV, val, TRUE)>>},
             locals \in {[fn_args EXCEPT !.matching_results = val]} :
            IF fn_args.import_meters_if_exist
              THEN Proceed(events, locals, "check_meters_tab_exist")
              ELSE Finish(events, locals)
     \/ Fail(<<Req("get", "import_files_matching_results", fn_args.import_file_id,
                   NoneV, NoneV, FALSE)>>, HttpFailed)

\* self.check_meters_tab_exist(import_file_id), and the return when there
\* is no meter tab
check_meters_tab_exist ==
  /\ pc = "check_meters_tab_exist"
  /\ \/ Proceed(<<Req("get", "import_files_check_meters_tab_exists_pk",
                      fn_args.import_file_id, NoneV, TrueV, TRUE)>>,
                fn_args, "import_files_reuse_inventory_file_for_meters")
     \/ Finish(<<Req("get", "import_files_check_meters_tab_exists_pk",
                     fn_args.import_file_id, NoneV, FalseV, TRUE)>>, fn_args)
     \/ Fail(<<Req("get", "import_files_check_meters_tab_exists_pk",
                   fn_args.import_file_id, NoneV, NoneV, FALSE)>>, HttpFailed)

\* reuse_file = self.import_files_reuse_inventory_file_for_meters(import_file_id)
\* and result = self.start_save_data(meter_import_file_id)
import_files_reuse_inventory_file_for_meters ==
  /\ pc = "import_files_reuse_inventory_file_for_meters"
  /\ \/ \E id \in ImportFileIds :
          \E reuse \in {Req("post", "import_files_reuse_inventory_file_for_meters",
                            id, NoneV, NoneV, TRUE)} :
            \/ \E key \in JobKeys \cup {NoneV} :
                 Proceed(<<reuse, Req("post", "import_files_start_save_data_pk", id, key,
                                      NoneV, TRUE)>>,
                         [fn_args EXCEPT !.progress_key = key], "track_meter_data")
            \/ Fail(<<reuse, Req("post", "import_files_start_save_data_pk", id, NoneV,
                                 NoneV, FALSE)>>, HttpFailed)
     \/ Fail(<<Req("post", "import_files_reuse_inventory_file_for_meters", 0, NoneV,
                   NoneV, FALSE)>>, HttpFailed)

\* the wait for the meters to be saved, and the return
track_meter_data ==
  /\ pc = "track_meter_data"
  /\ IF fn_args.progress_key = NoneV
       THEN Fail(<<>>, Raise("Exception", "No progress key provided"))
     ELSE \/ Finish(<<Tracked(fn_args.progress_key, TRUE)>>, fn_args)
          \/ Fail(<<Tracked(fn_args.progress_key, FALSE)>>, RecursionError)

\* a new client, which has uploaded nothing yet
UploadInit ==
  /\ server = <<>>
  /\ NewSeedClient

UploadNext ==
  \/ call_upload_and_match_datafile \/ get_or_create_dataset \/ upload_datafile
  \/ start_save_data \/ track_save_data
  \/ create_or_update_column_mapping_profile_from_file
  \/ set_import_file_column_mappings \/ start_map_data \/ track_map_data
  \/ start_system_matching_and_geocoding \/ track_matching \/ get_matching_results
  \/ check_meters_tab_exist \/ import_files_reuse_inventory_file_for_meters
  \/ track_meter_data

UploadSpec == UploadInit /\ [][UploadNext]_vars

----------------------------------------------------------------------------
(* read_map_file: pyseed.utils.  A row of the CSV file is the sequence of   *)
(* its cells; the fifth cell is a sequence of characters.                   *)

\* str.strip(): drops the white space at both ends
strip(s) == lstrip(rstrip(s, {" "}), {" "})

\* the header of a mapping file
MapHeader == <<"Raw Columns", "units", "SEED Table", "SEED Columns", <<"O", "m", "i", "t">>>>

\* the first four cells of a data row
MapCells == <<"Sq. Ft", "ft**2", "PropertyState", "gross_floor_area">>

\* what the fifth cell of a data row may hold
OmitCells ==
  { <<"t", "r", "u", "e">>, <<"T", "r", "u", "e">>, <<" ", "T", "R", "U", "E", " ">>,
    <<"F", "a", "l", "s", "e">>, <<>> }

\* the data rows: four cells, five cells, or a blank line
MapRows == {MapCells} \cup { Append(MapCells, c) : c \in OmitCells } \cup {<<>>}

\* the number of data rows of the files of the model
MaxMapRows == 2

\* a file: whether it exists, and the rows it holds
MapFile(exists, rows) == [exists |-> exists, rows |-> rows]

\* a file that does not exist, an empty one, and the files that hold the
\* header and data rows
MapFiles ==
  {MapFile(FALSE, <<>>), MapFile(TRUE, <<>>)}
    \cup UNION { { MapFile(TRUE, <<MapHeader>> \o rows) : rows \in [1 .. n -> MapRows] } :
                 n \in 0 .. MaxMapRows }

\* the dict read_map_file makes of a row that has four cells at least
MapData(rowitem) ==
  ("from_field" :> rowitem[1]) @@ ("from_units" :> rowitem[2])
    @@ ("to_table_name" :> rowitem[3]) @@ ("to_field" :> rowitem[4])
    @@ (IF Len(rowitem) >= 5
          THEN IF strip(lower(rowitem[5])) = <<"t", "r", "u", "e">>
                 THEN "is_omitted" :> TrueV
                 ELSE <<>>
          ELSE "is_omitted" :> FalseV)

\* read_map_file(mapfile_path): [exc, ret]
read_map_file(file) ==
  IF ~file.exists
    THEN [exc |-> Raise("ValueError", "Mapping file does not exist"), ret |-> <<>>]
  ELSE IF file.rows = <<>>
    THEN [exc |-> Raise("StopIteration", ""), ret |-> <<>>]
  ELSE IF \E i \in 2 .. Len(file.rows) : Len(file.rows[i]) < 4
    THEN [exc |-> Raise("IndexError", "list index out of range"), ret |-> <<>>]
  ELSE [exc |-> NoExc,
        ret |-> [i \in 1 .. Len(file.rows) - 1 |-> MapData(file.rows[i + 1])]]

\* the file of the call to come
MapFileInit ==
  /\ fn_args \in MapFiles
  /\ fn_result = <<>>
  /\ server = <<>> /\ cycle_id = 0 /\ hist = <<>>
  /\ NoSeedClient
  /\ NoApiObject
  /\ pc = "idle"

\* read_map_file(mapfile_path) returns or raises
call_read_map_file ==
  /\ pc = "idle"
  /\ fn_result' = read_map_file(fn_args)
  /\ pc' = "done"
  /\ UNCHANGED <<seedvars, apivars, fn_args, servervars>>

MapFileSpec == MapFileInit /\ [][call_read_map_file]_vars

----------------------------------------------------------------------------
(* SeedClient.update_label and delete_label: pyseed.seed_client.  server is *)
(* the list of the labels of the organization; the outcome of a call        *)
(* carries, as posts, the write requests the call issued.                   *)

MaxLabels == 2

\* names of labels
LabelNames == {"Call", "Lead"}

\* a PUT or DELETE request addressed to a primary key of the labels endpoint
Write(verb, pk) == [verb |-> verb, pk |-> pk]

\* self.get_labels(filter_by_name=[label_name]): the places of the labels
\* with the name
LabelsNamed(srv, label_name) == {i \in DOMAIN srv : srv[i].name = label_name}

\* the list without its i-th label
WithoutLabel(srv, i) == SubSeq(srv, 1, i - 1) \o SubSeq(srv, i + 1, Len(srv))

\* update_label that takes the first label with the name, however many
\* there are
update_label_first(srv, label_name, new_label_name, ok_list, ok_put) ==
  IF ~ok_list THEN Outcome(HttpFailed, NoOrg, <<>>, srv)
  ELSE IF LabelsNamed(srv, label_name) = {}
    THEN Outcome(Raise("Exception", "Could not find label to update of " \o label_name),
                 NoOrg, <<>>, srv)
  ELSE \* eager binding of the label found and of the label as updated
    Only({ IF ~ok_put THEN Outcome(HttpFailed, NoOrg, <<Write("PUT", srv[i].id)>>, srv)
           ELSE Outcome(NoExc, [srv[i] EXCEPT !.name = new], <<Write("PUT", srv[i].id)>>,
                        [srv EXCEPT ![i].name = new]) :
           i \in {CHOOSE i \in LabelsNamed(srv, label_name) :
                    \A j \in LabelsNamed(srv, label_name) : i <= j},
           new \in {IF new_label_name # NoneV THEN new_label_name ELSE label_name} })

\* SeedClient.update_label(label_name, new_label_name); ok_list and ok_put
\* tell whether the requests of get_labels() and of put() succeed
update_label(srv, label_name, new_label_name, ok_list, ok_put) ==
  IF ~ok_list THEN Outcome(HttpFailed, NoOrg, <<>>, srv)
  ELSE IF Cardinality(LabelsNamed(srv, label_name)) # 1
    THEN Outcome(Raise("Exception", "Could not find label to update of " \o label_name),
                 NoOrg, <<>>, srv)
  ELSE
    Only({ IF ~ok_put THEN Outcome(HttpFailed, NoOrg, <<Write("PUT", srv[i].id)>>, srv)
           ELSE Outcome(NoExc, [srv[i] EXCEPT !.name = new], <<Write("PUT", srv[i].id)>>,
                        [srv EXCEPT ![i].name = new]) :
           i \in LabelsNamed(srv, label_name),
           new \in {IF new_label_name # NoneV THEN new_label_name ELSE label_name} })

\* SeedClient.delete_label(label_name); the server answers 204 to a DELETE
\* that succeeds, and delete returns None
delete_label(srv, label_name, ok_list, ok_delete) ==
  IF ~ok_list THEN Outcome(HttpFailed, NoOrg, <<>>, srv)
  ELSE IF Cardinality(LabelsNamed(srv, label_name)) # 1
    THEN Outcome(Raise("Exception", "Could not find label to delete with name "
                                      \o label_name),
                 NoOrg, <<>>, srv)
  ELSE
    Only({ IF ~ok_delete
             THEN Outcome(HttpFailed, NoOrg, <<Write("DELETE", srv[i].id)>>, srv)
           ELSE Outcome(NoExc, NoOrg, <<Write("DELETE", srv[i].id)>>, WithoutLabel(srv, i)) :
           i \in LabelsNamed(srv, label_name) })

call_update_label ==
  /\ pc = "idle"
  /\ \E name \in LabelNames, new_label_name \in LabelNames \cup {NoneV},
        ok_list \in BOOLEAN, ok_put \in BOOLEAN :
       ServerCall("update_label", name,
                  update_label(server, name, new_label_name, ok_list, ok_put),
                  MaxLabels, cycle_id)

call_delete_label ==
  /\ pc = "idle"
  /\ \E name \in LabelNames, ok_list \in BOOLEAN, ok_delete \in BOOLEAN :
       ServerCall("delete_label", name, delete_label(server, name, ok_list, ok_delete),
                  MaxLabels, cycle_id)

\* an organization with no label, one, or two, which may have the same name
LabelInit ==
  /\ server \in {<<>>} \cup {<<[name |-> n, id |-> 1]>> : n \in LabelNames}
                \cup {<<[name |-> n, id |-> 1], [name |-> m, id |-> 2]>> :
                        n \in LabelNames, m \in LabelNames}
  /\ NewSeedClient

LabelSpec == LabelInit /\ [][call_update_label \/ call_delete_label]_vars

----------------------------------------------------------------------------
(* SeedClient.get_cycle_by_name, and the specification of the two methods  *)
(* that look an entry up by its name.  server is the list of the cycles.    *)

\* get_cycle_by_name that takes the last cycle with the name
get_cycle_by_name_last(srv, cycle_name, ok_list) ==
  IF ~ok_list THEN [exc |-> HttpFailed, ret |-> NoOrg]
  ELSE IF \A i \in DOMAIN srv : srv[i].name # cycle_name
    THEN [exc |-> Raise("ValueError", "cycle '" \o cycle_name \o "' not found"),
          ret |-> NoOrg]
  ELSE [exc |-> NoExc,
        ret |-> srv[CHOOSE i \in DOMAIN srv :
                      /\ srv[i].name = cycle_name
                      /\ \A j \in i + 1 .. Len(srv) : srv[j].name # cycle_name]]

\* SeedClient.get_cycle_by_name(cycle_name, set_cycle_id) up to the setting
\* of cycle_id: [exc, ret]; ok_list tells whether the request of
\* get_cycles() succeeds
get_cycle_by_name(srv, cycle_name, ok_list) ==
  IF ~ok_list THEN [exc |-> HttpFailed, ret |-> NoOrg]
  ELSE IF FirstNamed(srv, cycle_name) = NoOrg
    THEN [exc |-> Raise("ValueError", "cycle '" \o cycle_name \o "' not found"),
          ret |-> NoOrg]
  ELSE [exc |-> NoExc, ret |-> FirstNamed(srv, cycle_name)]

\* a call of get_cycle_by_name; fn_args keeps its arguments and the cycle_id
\* of the client when it was called
call_get_cycle_by_name ==
  /\ pc = "idle"
  /\ \E cycle_name \in CycleNames, set_cycle_id \in BOOLEAN, ok_list \in BOOLEAN :
       \E out \in {get_cycle_by_name(server, cycle_name, ok_list)} :
         /\ fn_args' = [cycle_name |-> cycle_name, set_cycle_id |-> set_cycle_id,
                        cycle_id |-> cycle_id]
         /\ fn_result' = out
         /\ cycle_id' = IF out.exc = NoExc /\ set_cycle_id THEN out.ret.id ELSE cycle_id
  /\ pc' = "done"
  /\ UNCHANGED <<seedvars, apivars, server, hist>>

\* a new client with user authentication, and a server that holds no cycle,
\* one, or two, which may have the same name
ByNameInit ==
  /\ legacy = FALSE /\ authKind = "user" /\ use_ssl = FALSE /\ token = NoneV
  /\ auth = NoneV /\ org_id = 1 /\ org_set = 0 /\ last = NoCall
  /\ server \in {<<>>} \cup {<<[name |-> n, id |-> 1]>> : n \in CycleNames}
                \cup {<<[name |-> n, id |-> 1], [name |-> m, id |-> 2]>> :
                        n \in CycleNames, m \in CycleNames}
  /\ cycle_id = 0 /\ hist = <<>>
  /\ fn_args = <<>> /\ fn_result = <<>>
  /\ NoApiObject
  /\ pc = "idle"

ByNameSpec == ByNameInit /\ [][get_org_by_name \/ call_get_cycle_by_name \/ Return]_vars

----------------------------------------------------------------------------
(* UserAuthMixin: pyseed.apibase.  api is a client with user               *)
(* authentication, given by the attributes the mixin reads; call is its     *)
(* latest request; hist holds the auth objects made so far, each with the   *)
(* attributes of the client at that moment.                                 *)

MaxRequests == 3

\* the values the caller gives to the credential attributes
Credentials ==
  [username : {"u1", "u2"}, password : {NoneV, "pw"}, api_key : {"key1", "key2"},
   auth_method : {NoneV, "digest"}]

\* requests.auth.HTTPBasicAuth(username, password) or HTTPDigestAuth(...);
\* made is the number of auth objects made before this one
AuthObject(kind, username, password, made) ==
  [kind |-> kind, username |-> username, password |-> password, made |-> made]

\* self.auth of a client that has no auth object: None
NoAuth == AuthObject(NoneV, NoneV, NoneV, 0)

\* the client: use_auth, auth and the credential attributes
UserAuthClient(use_auth, au, cred) ==
  [use_auth |-> use_auth, auth |-> au, username |-> cred.username,
   password |-> cred.password, api_key |-> cred.api_key, auth_method |-> cred.auth_method]

\* UserAuthMixin._get_auth()
UserAuthMixin_get_auth(self, made) ==
  AuthObject(IF self.auth_method = "digest" THEN "HTTPDigestAuth" ELSE "HTTPBasicAuth",
             self.username,
             IF ~Truthy(self.password) THEN self.api_key ELSE self.password,
             made)

\* a mixin that makes a new auth object for every request
UserAuthMixin_auth_renewed(self, made) ==
  IF Truthy(self.use_auth) THEN UserAuthMixin_get_auth(self, made) ELSE self.auth

\* self.auth once UserAuthMixin._construct_payload has run
UserAuthMixin_auth(self, made) ==
  IF Truthy(self.use_auth) /\ self.auth = NoAuth
    THEN UserAuthMixin_get_auth(self, made)
    ELSE self.auth

\* the record of a request: how many requests the client has made, and the
\* auth the request was sent with (NoAuth: payload without auth)
AuthCall(n, au) == [n |-> n, auth |-> au]

\* a request of the client (_get, _post, _put, _patch or _delete) whose url
\* is valid or not: _construct_url, _construct_payload, and the request
UserAuth_request ==
  /\ pc = "idle"
  /\ call.n < MaxRequests
  /\ \E ok_url \in BOOLEAN :
       IF ~ok_url THEN UNCHANGED <<api, call, hist>>
       ELSE \E au \in {UserAuthMixin_auth(api, Len(hist))} :
              /\ api' = [api EXCEPT !.auth = au]
              /\ hist' = IF au # api.auth
                           THEN Append(hist, [auth |-> au, self |-> api])
                           ELSE hist
              /\ call' = AuthCall(call.n + 1, au)
  /\ UNCHANGED <<seedvars, pc, fnvars, server, cycle_id>>

\* the caller changes the credential attributes of the client
set_credentials ==
  /\ pc = "idle"
  /\ \E cred \in Credentials : api' = UserAuthClient(api.use_auth, api.auth, cred)
  /\ UNCHANGED <<seedvars, pc, call, fnvars, servervars>>

\* the client after construction: no auth object yet
AuthInit ==
  /\ \E use_auth \in {TrueV, FalseV}, cred \in Credentials :
       api = UserAuthClient(use_auth, NoAuth, cred)
  /\ call = AuthCall(0, NoAuth)
  /\ NoSeedClient
  /\ NoFunction
  /\ pc = "idle"

AuthSpec == AuthInit /\ [][UserAuth_request \/ set_credentials]_vars

----------------------------------------------------------------------------
(* SeedClient.retrieve_at_building_and_update and                           *)
(* retrieve_at_submission_and_update: pyseed.seed_client.  server holds the *)
(* answer of the audit template GET and the answer of the PUT that updates  *)
(* the property; hist is the sequence of the requests the call issued.      *)

\* report_format, and filename, as the caller gives them
ReportFormats == {<<"p", "d", "f">>, <<"P", "D", "F">>, <<"x", "m", "l">>}
ReportFilenames == {NoneV, "report"}

\* self.urls of the endpoint with PK replaced
AuditUrl(endpoint) ==
  HttpsPrefix \o rstrip(base_url, Slash) \o <<"/", "a", "p", "i", "/", "v", "3", "/">>
    \o (IF endpoint \in {"audit_template_submission", "audit_template_building_xml"}
          THEN <<"a", "t", "/", "5", "/", "g", "e", "t">>
          ELSE <<"p", "r", "o", "p", "/", "3", "/", "u", "p", "d">>)

\* the answers to the GET: the report as PDF, as XML in JSON, a result that
\* is neither success nor error, a result without status, and two errors
AuditResponses(url) ==
  { Response(200, PdfType, "invalid", <<>>, url, "GET"),
    Response(200, JsonType, "dict", ("status" :> "success") @@ ("content" :> "<xml/>"),
             url, "GET"),
    Response(200, JsonType, "dict", ("status" :> "pending") @@ ("message" :> "wait"),
             url, "GET"),
    Response(200, JsonType, "dict", "results" :> "none", url, "GET"),
    Response(200, JsonType, "dict", ("status" :> "error") @@ ("message" :> "No report"),
             url, "GET"),
    Response(500, JsonType, "dict", "message" :> "Server Error", url, "GET") }

\* the answers to the PUT
UpdateResponses(url) ==
  { Response(200, JsonType, "dict", ("status" :> "success") @@ ("message" :> "updated"),
             url, "PUT"),
    Response(200, JsonType, "dict", ("status" :> "error") @@ ("message" :> "No property"),
             url, "PUT"),
    Response(500, JsonType, "dict", "message" :> "Server Error", url, "PUT") }

\* a request of the call: the verb, the endpoint, the name of the file sent
AuditRequest(verb, endpoint, filename) ==
  [verb |-> verb, endpoint |-> endpoint, filename |-> filename]

\* self.client.get(...) and self.client.put(...) once the response is there
audit_crud(resp, verb, userFn) ==
  Only({ [exc |-> out.exc, ret |-> out.ret] :
         out \in {CheckAndExtract(FALSE, resp, <<>>, verb, userFn)} })

\* response[key] of a result of the client: [exc, v]
Subscript(ret, key) ==
  IF ret.t = "content"
    THEN [exc |-> NoExc, v |-> IF key = "status" THEN "success" ELSE "<pdf>"]
  ELSE IF ret.t # "dict"
    THEN [exc |-> Raise("TypeError", "indices must be integers"), v |-> NoneV]
  ELSE IF key \notin DOMAIN ret.d
    THEN [exc |-> Raise("KeyError", key), v |-> NoneV]
  ELSE [exc |-> NoExc, v |-> ret.d[key]]

\* response2["pdf_report"] = pdf_file
WithPdfReport(ret, pdf_file) ==
  IF ret.t \in {"dict", "content"}
    THEN [exc |-> NoExc, ret |-> Ret("dict", NoneV, ("pdf_report" :> pdf_file) @@ ret.d)]
    ELSE [exc |-> Raise("TypeError", "does not support item assignment"), ret |-> NoRet]

\* return response2 when response2 was never assigned
UnboundLocalError ==
  Raise("UnboundLocalError", "local variable 'response2' referenced before assignment")

\* the outcome of a call: what it raises or returns, and its requests
AuditOutcome(exc, ret, requests) == [exc |-> exc, ret |-> ret, requests |-> requests]

\* the second half of both functions: the PUT of the file, then the return
update_property(srv, g, endpoint, filename, is_pdf, content, userFn) ==
  Only({ IF content.exc # NoExc THEN AuditOutcome(content.exc, NoRet, <<g>>)
         ELSE IF response2.exc # NoExc THEN AuditOutcome(response2.exc, NoRet, <<g, p>>)
         ELSE IF ~is_pdf THEN AuditOutcome(NoExc, response2.ret, <<g, p>>)
         ELSE Only({ AuditOutcome(w.exc, w.ret, <<g, p>>) :
                     w \in {WithPdfReport(response2.ret, content.v)} }) :
         response2 \in {audit_crud(srv.put, "put", userFn)},
         p \in {AuditRequest("PUT", endpoint, filename)} })

\* SeedClient.retrieve_at_building_and_update(audit_template_building_id,
\* cycle_id, seed_id)
retrieve_at_building_and_update(srv) ==
  Only({ IF got.exc # NoExc THEN AuditOutcome(got.exc, NoRet, <<g>>)
         ELSE IF Subscript(got.ret, "status").exc # NoExc
           THEN AuditOutcome(Subscript(got.ret, "status").exc, NoRet, <<g>>)
         ELSE IF Subscript(got.ret, "status").v # "success"
           THEN AuditOutcome(NoExc, got.ret, <<g>>)
         ELSE update_property(srv, g, "properties_update_with_buildingsync", "at_time.xml",
                              FALSE, Subscript(got.ret, "content"),
                              "retrieve_at_building_and_update") :
         got \in {audit_crud(srv.get, "get", "retrieve_at_building_and_update")},
         g \in {AuditRequest("GET", "audit_template_building_xml", NoneV)} })

\* SeedClient.retrieve_at_submission_and_update(audit_template_submission_id,
\* cycle_id, seed_id, report_format, filename)
retrieve_at_submission_and_update(srv, report_format, filename) ==
  Only({ IF got.exc # NoExc THEN AuditOutcome(got.exc, NoRet, <<g>>)
         ELSE IF Subscript(got.ret, "status").exc # NoExc
           THEN AuditOutcome(Subscript(got.ret, "status").exc, NoRet, <<g>>)
         ELSE IF Subscript(got.ret, "status").v # "success"
           THEN AuditOutcome(UnboundLocalError, NoRet, <<g>>)
         ELSE IF lower(report_format) = <<"p", "d", "f">>
           THEN update_property(srv, g, "properties_upload_inventory_document",
                                IF ~Truthy(filename) THEN "at_submission_report_5.pdf"
                                ELSE filename,
                                TRUE, Subscript(got.ret, "content"),
                                "retrieve_at_submission_and_update")
         ELSE update_property(srv, g, "properties_update_with_buildingsync",
                              IF ~Truthy(filename) THEN "at_time.xml" ELSE filename,
                              FALSE, Subscript(got.ret, "content"),
                              "retrieve_at_submission_and_update") :
         got \in {audit_crud(srv.get, "get", "retrieve_at_submission_and_update")},
         g \in {AuditRequest("GET", "audit_template_submission", NoneV)} })

\* the arguments of a call
AuditArgs(fn, report_format, filename) ==
  [fn |-> fn, report_format |-> report_format, filename |-> filename]

\* what a call leaves: its result and its requests
AuditCall(args, out) ==
  /\ fn_args' = args
  /\ fn_result' = [exc |-> out.exc, ret |-> out.ret]
  /\ hist' = out.requests
  /\ pc' = "done"
  /\ UNCHANGED <<seedvars, apivars, server, cycle_id>>

call_retrieve_at_building_and_update ==
  /\ pc = "idle"
  /\ \E out \in {retrieve_at_building_and_update(server)} :
       AuditCall(AuditArgs("retrieve_at_building_and_update", <<>>, NoneV), out)

call_retrieve_at_submission_and_update ==
  /\ pc = "idle"
  /\ \E report_format \in ReportFormats, filename \in ReportFilenames :
       \E out \in {retrieve_at_submission_and_update(server, report_format, filename)} :
         AuditCall(AuditArgs("retrieve_at_submission_and_update", report_format, filename),
                   out)

\* a client, and a server that answers in one way to the GET and in one way
\* to the PUT
AuditInit ==
  /\ \E get_resp \in AuditResponses(AuditUrl("audit_template_submission")),
        put_resp \in UpdateResponses(AuditUrl("properties_update_with_buildingsync")) :
       server = [get |-> get_resp, put |-> put_resp]
  /\ fn_args = AuditArgs("", <<>>, NoneV)
  /\ fn_result = [exc |-> NoExc, ret |-> NoRet]
  /\ cycle_id = 0 /\ hist = <<>>
  /\ NoSeedClient
  /\ NoApiObject
  /\ pc = "idle"

AuditSpec ==
  AuditInit
    /\ [][call_retrieve_at_building_and_update \/ call_retrieve_at_submission_and_update]_vars

----------------------------------------------------------------------------
(* The specification of the SEED clients *)

\* the clients of the model: <<legacy, authKind, use_ssl, token>>
Clients ==
  { <<FALSE, "oauth", TRUE, "dfghjk">>,
    <<FALSE, "oauth", TRUE, NoneV>>,
    <<FALSE, "user", FALSE, NoneV>>,
    <<TRUE, "oauth", TRUE, "dfghjk">> }

\* the client after construction
Init ==
  /\ \E c \in Clients :
       legacy = c[1] /\ authKind = c[2] /\ use_ssl = c[3] /\ token = c[4]
  /\ auth = NoneV
  /\ org_id = 1
  /\ org_set = 0
  /\ pc = "idle"
  /\ last = NoCall
  /\ NoApiObject
  /\ NoFunction

Next ==
  get \/ list \/ post \/ put \/ patch \/ delete \/ get_org_by_name \/ Return

Spec == Init /\ [][Next]_vars

----------------------------------------------------------------------------
(* Properties *)

CrudOps == {"get", "list", "post", "put", "patch", "delete"}

\* a CRUD call of a pyseed.seed_client_base client has completed, and its
\* request was sent
BaseCallDone == pc = "done" /\ ~legacy /\ last.op \in CrudOps /\ last.sent

\* a JSON-object response: its content type is JSON and its body a JSON object
JsonObject(resp) == HasType(resp.ctype, JsonType) /\ resp.kind = "dict"

\* the names _get_result looks the result up under
ResultNames == <<Join(last.data_name), "data", "detail">>

\* C1: every failure on the response of a CRUD call of a seed_client_base
\* client is a SEEDError with service 'SEED' whose url, verb and status_code
\* are the response's request url, request method and status code.
C1_FailureIsSEEDError ==
  (BaseCallDone /\ last.exc # NoExc)
    => /\ last.exc.type = "SEEDError"
       /\ last.exc.service = "SEED"
       /\ last.exc.url = last.resp.url
       /\ last.exc.verb = last.resp.method
       /\ last.exc.status_code = last.resp.status_code

\* C2: the caller of a SEEDError raised during a CRUD call is
\* '<ClientClass>.<method>', <method> being the CRUD method that was invoked,
\* whether _check_response or _get_result raised it.
C2_CallerIsCrudMethod ==
  (pc = "done" /\ last.op \in CrudOps /\ last.exc.type = "SEEDError")
    => last.exc.caller = ClassName \o "." \o last.op

\* C3: _check_response raises SEEDError for every status code other than 200,
\* 201, 202 and 204, whatever the body and the content type, and for every
\* 200/201/202 JSON-object response whose 'status' is 'error'; it raises
\* nothing for a 204.
C3_CheckResponseRaises ==
  (pc = "done" /\ ~legacy /\ last.checked)
    => /\ last.resp.status_code \notin {200, 201, 202, 204}
            => last.check_exc.type = "SEEDError"
       /\ (/\ last.resp.status_code \in {200, 201, 202}
           /\ JsonObject(last.resp)
           /\ DictGet(last.resp.d, "status", NoneV) = "error")
            => last.check_exc.type = "SEEDError"
       /\ last.resp.status_code = 204 => last.check_exc = NoExc

C3_Witness ==
  /\ pc = "done" /\ ~legacy /\ last.checked
  /\ last.resp.status_code = 404
  /\ last.resp.ctype = TextType
  /\ last.resp.kind = "dict"
  /\ last.check_exc.type = "SEEDError"

\* C4: the error text of the SEEDError _check_response raises is the body's
\* 'message' when the body is a JSON object that has one, and 'SEED returned
\* status code: <code>' when the status code is not a 2xx one and the body is
\* empty.
C4_ErrorText ==
  (pc = "done" /\ ~legacy /\ last.check_exc.type = "SEEDError")
    => /\ (last.resp.kind = "dict" /\ "message" \in DOMAIN last.resp.d)
            => last.check_exc.error = last.resp.d["message"]
       /\ (last.resp.status_code \notin 200 .. 299 /\ last.resp.kind = "empty")
            => last.check_exc.error
                 = "SEED returned status code: " \o ToString(last.resp.status_code)

C4_Witness ==
  /\ pc = "done" /\ ~legacy
  /\ last.check_exc.type = "SEEDError"
  /\ last.resp.status_code = 404
  /\ last.resp.kind = "dict"
  /\ "message" \in DOMAIN last.resp.d
  /\ last.check_exc.error = "No llama!"

\* C5: for a JSON-object response, get, list, post, put and patch return the
\* value under the first of data_name, 'data', 'detail' whose value is not
\* None, and the whole body when data_name is 'all'.
C5_ResultExtracted ==
  (/\ BaseCallDone /\ last.op # "delete"
   /\ last.checked /\ last.check_exc = NoExc
   /\ last.resp.status_code # 204
   /\ JsonObject(last.resp))
    => IF last.data_name = AllName
         THEN last.exc = NoExc /\ last.ret = Ret("dict", NoneV, last.resp.d)
         ELSE \A i \in DOMAIN ResultNames :
                (/\ DictGet(last.resp.d, ResultNames[i], NoneV) # NoneV
                 /\ \A j \in 1 .. i - 1 :
                      DictGet(last.resp.d, ResultNames[j], NoneV) = NoneV)
                  => /\ last.exc = NoExc
                     /\ last.ret = Ret("value", last.resp.d[ResultNames[i]], <<>>)

C5_Witness ==
  /\ BaseCallDone /\ last.op = "get"
  /\ last.exc = NoExc
  /\ JsonObject(last.resp)
  /\ last.data_name = <<"t", "e", "s", "t">>
  /\ "test" \in DOMAIN last.resp.d /\ last.resp.d["test"] = NoneV
  /\ last.ret = Ret("value", "Det", <<>>)

\* the path segments of a url
Segments(url) == rsplit(rstrip(url, Slash), "/", Len(url))

\* the last path segment of the url, or the one before it when the last is a
\* numeric id
SegmentName(url) ==
  IF isdigit(Segments(url)[Len(Segments(url))])
    THEN Segments(url)[Len(Segments(url)) - 1]
    ELSE Segments(url)[Len(Segments(url))]

\* C6: without a data_name, _get_result derives it from the request url: the
\* last path segment, or the segment before it when the last is a numeric id.
C6_DerivedDataName ==
  (/\ pc = "done" /\ last.op \in CrudOps /\ last.sent
   /\ last.data_name_arg = <<>>
   /\ last.data_name # <<>>)
    => last.data_name = SegmentName(last.resp.url)

\* C7: in pyseed.seed_client_base a call whose JSON-object response passes
\* _check_response and has no non-None value under data_name, 'data' or
\* 'detail' raises SEEDError 'Could not find result using data_name
\* <data_name>.' (data_name not being 'all').
C7_MissingResultRaises ==
  (/\ BaseCallDone /\ last.checked
   /\ last.check_exc = NoExc
   /\ last.resp.status_code # 204
   /\ JsonObject(last.resp)
   /\ last.data_name # <<>>
   /\ last.data_name # AllName
   /\ \A i \in DOMAIN ResultNames : DictGet(last.resp.d, ResultNames[i], NoneV) = NoneV)
    => /\ last.exc.type = "SEEDError"
       /\ last.exc.error
            = "Could not find result using data_name " \o Join(last.data_name) \o "."

C9_OrganizationId ==
  (pc = "done" /\ ~legacy /\ last.sent)
    => /\ "organization_id" \in DOMAIN last.req.params
       /\ last.req.params["organization_id"] = last.org_at_call
       /\ (last.op \in CrudOps /\ org_set # 0)
            => last.req.params["organization_id"] = org_set

C9_Witness ==
  /\ BaseCallDone
  /\ org_set # 0
  /\ "organization_id" \in DOMAIN last.kwargs
  /\ last.kwargs["organization_id"] # org_set
  /\ last.req.params["organization_id"] = org_set

----------------------------------------------------------------------------
(* Properties of the pyseed.apibase specification *)

ApiBodyOps == {"_post", "_put", "_patch"}

\* a call on the object has completed and its request was sent
ApiCallSent == pc = "done" /\ call.op # "__init__" /\ call.sent

\* C11: when _post, _put or _patch is called with a params dict and extra
\* keyword arguments, none of them json or data, on an object without
\* compulsory_params, the request's query params are the params the caller
\* supplied, and the keyword arguments are its body: under json when use_json
\* is set, under data otherwise.
C11_BodyAndParams ==
  (/\ ApiCallSent
   /\ call.op \in ApiBodyOps
   /\ api.compulsory_params = <<>>
   /\ call.params # <<>>
   /\ call.kwargs # <<>>
   /\ DOMAIN call.kwargs \cap {"json", "data"} = {})
    => /\ call.req.params = call.params
       /\ call.req.body_key = (IF api.use_json THEN "json" ELSE "data")
       /\ call.req.body = call.kwargs

----------------------------------------------------------------------------
(* Properties of add_pk *)

\* add_pk has returned or raised
AddPkDone == pc = "done" /\ fn_result # <<>>

\* a positive integer or a string of digits
ValidPk(pk) == (pk.t = "int" /\ pk.i > 0) \/ (pk.t = "str" /\ isdigit(pk.s))

\* the url without its trailing slash, if it has one
Unslashed(url) ==
  IF endswith(url, <<"/">>) THEN SubSeq(url, 1, Len(url) - 1) ELSE url

\* C12: add_pk raises APIClientError 'id/pk must be supplied' when pk is None
\* and required is true, raises TypeError 'id/pk must be a positive integer'
\* for every pk other than None that is neither a positive integer nor a
\* string of digits, and never returns a url for such a pk.
C12_PkErrors ==
  AddPkDone =>
    /\ (fn_args.pk = PkNone /\ fn_args.required)
         => fn_result.exc = APIClientError("id/pk must be supplied")
    /\ (fn_args.pk # PkNone /\ ~ValidPk(fn_args.pk))
         => /\ fn_result.exc = Raise("TypeError", "id/pk must be a positive integer")
            /\ ~(/\ fn_result.exc = NoExc
                 /\ PkText(fn_args.pk) # <<>>
                 /\ endswith(Unslashed(fn_result.url), PkText(fn_args.pk)))

\* C13: for a valid pk add_pk returns the url, one '/', the pk, and one more
\* '/' exactly when slash is true; with pk None and required false it returns
\* the url, with a trailing '/' added when slash is true and there is none.
C13_PkUrl ==
  AddPkDone =>
    /\ ValidPk(fn_args.pk)
         => /\ fn_result.exc = NoExc
            /\ fn_result.url = Unslashed(fn_args.url) \o <<"/">> \o PkText(fn_args.pk)
                                 \o (IF fn_args.slash THEN <<"/">> ELSE <<>>)
    /\ (fn_args.pk = PkNone /\ ~fn_args.required)
         => /\ fn_result.exc = NoExc
            /\ fn_result.url = IF fn_args.slash
                                 THEN Unslashed(fn_args.url) \o <<"/">>
                               ELSE fn_args.url

\* a valid pk has been added to a url that ends in '/', without a trailing slash
C13_Witness ==
  /\ AddPkDone
  /\ ValidPk(fn_args.pk)
  /\ endswith(fn_args.url, <<"/">>)
  /\ ~fn_args.slash
  /\ fn_result.url = Unslashed(fn_args.url) \o <<"/">> \o PkText(fn_args.pk)

----------------------------------------------------------------------------
(* Properties of the urls of pyseed.apibase *)

\* the use_ssl in force in the latest call: the object's unless it is None,
\* else the argument's; the constructor sets the object's from its argument
SslInForce ==
  Truthy(IF call.op = "__init__" \/ api.use_ssl = NoneV THEN call.use_ssl
         ELSE api.use_ssl)

\* the latest call has raised this APIClientError and sent no request
UrlErrorRaised(msg) ==
  call.exc = APIClientError(msg) /\ ~call.sent /\ call.req = NoRequest

\* C14: a call of _get, _post, _put, _patch or _delete, and the constructor,
\* given an http:// url while SSL is in force raises 'use_ssl is true but url
\* does not starts with https'; given an https:// url while SSL is off it
\* raises 'use_ssl is false but url starts with https'; a call given no url
\* on an object without a url raises 'No url set'.  No request is sent then.
C14_UrlErrors ==
  (pc = "done" /\ call.op # "") =>
    /\ (startswith(call.url, HttpPrefix) /\ SslInForce)
         => UrlErrorRaised("use_ssl is true but url does not starts with https")
    /\ (startswith(call.url, HttpsPrefix) /\ ~SslInForce)
         => UrlErrorRaised("use_ssl is false but url starts with https")
    /\ (call.op # "__init__" /\ call.url = <<>> /\ api.url = <<>>)
         => UrlErrorRaised("No url set")

\* _patch was given an http:// url with use_ssl=False on an object that
\* enforces SSL, and raised
C14_Witness ==
  /\ pc = "done"
  /\ call.op = "_patch"
  /\ api.use_ssl = TrueV
  /\ call.use_ssl = FalseV
  /\ startswith(call.url, HttpPrefix)
  /\ UrlErrorRaised("use_ssl is true but url does not starts with https")

\* the url without its scheme
Bare(url) ==
  IF startswith(url, HttpsPrefix) THEN SubSeq(url, Len(HttpsPrefix) + 1, Len(url))
  ELSE IF startswith(url, HttpPrefix) THEN SubSeq(url, Len(HttpPrefix) + 1, Len(url))
  ELSE url

\* C15: the url of every request sent by an object whose use_ssl is true is
\* 'https://' followed by the url without a scheme, and 'http://' followed by
\* it when use_ssl is false, whatever the use_ssl argument of the call; the
\* argument decides only when the object's use_ssl is None.
C15_Scheme ==
  ApiCallSent =>
    /\ Bare(call.req.url) = Bare(IF call.url # <<>> THEN call.url ELSE api.url)
    /\ Bare(Bare(call.req.url)) = Bare(call.req.url)
    /\ api.use_ssl = TrueV => startswith(call.req.url, HttpsPrefix)
    /\ api.use_ssl = FalseV => startswith(call.req.url, HttpPrefix)
    /\ (api.use_ssl = NoneV /\ call.url # <<>>)
         => startswith(call.req.url,
                       IF Truthy(call.use_ssl) THEN HttpsPrefix ELSE HttpPrefix)

\* a call with use_ssl=False and a url of its own on an object that enforces
\* SSL was sent over https
C15_Witness ==
  /\ ApiCallSent
  /\ api.use_ssl = TrueV
  /\ call.use_ssl = FalseV
  /\ call.url # <<>>
  /\ startswith(call.req.url, HttpsPrefix)

----------------------------------------------------------------------------
(* Properties of the compulsory params of pyseed.apibase *)

\* what the caller of the latest call gave as request parameters: the keyword
\* arguments, and for _post, _put and _patch also the params argument
CallerValues == call.kwargs @@ call.params

\* the positions in compulsory_params of the names that have neither a value
\* of the caller nor an attribute of the object
Missing ==
  { i \in DOMAIN api.compulsory_params :
      /\ api.compulsory_params[i] \notin DOMAIN CallerValues
      /\ api.compulsory_params[i] \notin DOMAIN api.attrs }

\* C16: when the url of a call is accepted, then either every name in
\* compulsory_params has a value of the caller or an attribute of the object,
\* and the request is sent and carries for each name the caller's value, or
\* the attribute when the caller gave none; or the request is not sent and
\* APIClientError '<name> is a compulsory field' is raised for the first name
\* in the list that has neither.
C16_CompulsoryParams ==
  (/\ pc = "done"
   /\ call.op \notin {"", "__init__"}
   /\ call.exc.error \notin {"No url set",
                             "use_ssl is false but url starts with https",
                             "use_ssl is true but url does not starts with https"})
    => IF Missing = {}
         THEN /\ call.sent
              /\ \A i \in DOMAIN api.compulsory_params :
                   /\ api.compulsory_params[i] \in DOMAIN call.req.params
                   /\ call.req.params[api.compulsory_params[i]]
                        = IF api.compulsory_params[i] \in DOMAIN CallerValues
                            THEN CallerValues[api.compulsory_params[i]]
                          ELSE api.attrs[api.compulsory_params[i]]
       ELSE /\ ~call.sent
            /\ call.exc = APIClientError(
                 api.compulsory_params[CHOOSE i \in Missing : \A j \in Missing : i <= j]
                   \o " is a compulsory field")

----------------------------------------------------------------------------
(* Properties of the constructor of the SEED clients *)

\* the constructor has returned
InitDone == pc = "done" /\ fn_result # <<>>

\* the base_url argument ('localhost' when there is none), with ':' and
\* the port when a port is given
HostAndPort ==
  (IF fn_args.base_url # <<>> THEN fn_args.base_url ELSE Localhost)
    \o (IF fn_args.port # <<>> THEN <<":">> \o fn_args.port ELSE <<>>)

\* the path without its leading slash, if it has one
Unrooted(path) ==
  IF startswith(path, <<"/">>) THEN Tail(path) ELSE path

\* C17: after the construction of a SEED client, base_url is the base_url
\* argument, followed by ':' and the port when a port is given, and ends in
\* exactly one '/'; the url of every endpoint is base_url and the endpoint's
\* path with exactly one '/' between them; endpoint and data_name are the
\* class attributes where the class sets them, and the arguments otherwise.
C17_Constructed ==
  InitDone =>
    /\ fn_result.base_url \in {HostAndPort, HostAndPort \o <<"/">>}
    /\ endswith(fn_result.base_url, <<"/">>)
    /\ ~endswith(fn_result.base_url, <<"/", "/">>)
    /\ DOMAIN fn_result.urls = DOMAIN fn_args.url_map
    /\ \A key \in DOMAIN fn_args.url_map :
         fn_result.urls[key] = fn_result.base_url \o Unrooted(fn_args.url_map[key])
    /\ fn_result.endpoint = IF fn_args.cls_endpoint # <<>> THEN fn_args.cls_endpoint
                            ELSE fn_args.endpoint
    /\ fn_result.data_name = IF fn_args.cls_data_name # <<>> THEN fn_args.cls_data_name
                             ELSE fn_args.data_name

\* a class that sets endpoint was constructed with another endpoint, a
\* base_url ending in '/' and a port
C17_Witness ==
  /\ InitDone
  /\ fn_args.cls_endpoint # <<>>
  /\ fn_args.endpoint \notin {<<>>, fn_args.cls_endpoint}
  /\ fn_args.port # <<>>
  /\ endswith(fn_args.base_url, <<"/">>)
  /\ fn_result.endpoint = fn_args.cls_endpoint
  /\ fn_result.base_url = HostAndPort \o <<"/">>

----------------------------------------------------------------------------
(* Properties of the calls that create cycles and organizations *)

\* the latest call was op
Latest(op) == hist # <<>> /\ hist[1].op = op

\* the latest and the previous call were both op
Twice(op) == Len(hist) = 2 /\ hist[1].op = op /\ hist[2].op = op

\* the server held a cycle with exactly the name the latest call was given
CycleExisted == \E i \in DOMAIN hist[1].before : hist[1].before[i].name = hist[1].name

\* the latest call has created what it returns, with one POST
CreatedOne ==
  /\ hist[1].posts = 1
  /\ hist[1].ret.name = hist[1].name
  /\ server = Append(hist[1].before, hist[1].ret)

\* the latest call has issued no POST and left the server as it was
NothingPosted == hist[1].posts = 0 /\ server = hist[1].before

\* C18: get_or_create_cycle(name) whose listing of the cycles succeeds returns
\* a cycle with that name that exists, without a POST; when none exists and
\* the call returns, it has created exactly one cycle, the one it returns.
\* So two successive calls with the same name add at most one cycle to the
\* server, and when both return they return the same cycle id.
C18_GetOrCreateCycle ==
  Latest("get_or_create_cycle") =>
    /\ (CycleExisted /\ hist[1].exc # HttpFailed)
         => /\ hist[1].exc = NoExc
            /\ NothingPosted
            /\ hist[1].ret.name = hist[1].name
            /\ hist[1].ret \in Range(server)
    /\ (~CycleExisted /\ hist[1].exc = NoExc) => CreatedOne
    /\ hist[1].exc # NoExc => server = hist[1].before /\ hist[1].posts <= 1
    /\ (Twice("get_or_create_cycle") /\ hist[2].name = hist[1].name)
         => /\ Len(server) <= Len(hist[2].before) + 1
            /\ (hist[1].exc = NoExc /\ hist[2].exc = NoExc)
                 => hist[1].ret.id = hist[2].ret.id

\* get_or_create_cycle created a cycle, and the next call with the same name
\* returned that cycle without a POST
C18_Witness ==
  /\ Twice("get_or_create_cycle")
  /\ hist[2].name = hist[1].name
  /\ hist[2].exc = NoExc /\ hist[2].posts = 1
  /\ hist[1].exc = NoExc /\ hist[1].posts = 0
  /\ hist[1].ret = hist[2].ret
  /\ Len(server) = Len(hist[2].before) + 1

OrgExisted ==
  \E i \in DOMAIN hist[1].before : lower(hist[1].before[i].name) = lower(hist[1].name)

\* C20: create_organization issues no POST when an organization whose name
\* equals the given one up to case is listed, and raises Exception
\* "Organization '<name>' already exists" when the listing succeeds; so two
\* successive calls with the same name, up to case, create at most one
\* organization.
C20_CreateOrganization ==
  Latest("create_organization") =>
    /\ OrgExisted
         => /\ NothingPosted
            /\ hist[1].exc # HttpFailed
                 => hist[1].exc = Raise("Exception",
                                        "Organization '" \o Join(hist[1].name)
                                          \o "' already exists")
    /\ (Twice("create_organization") /\ lower(hist[2].name) = lower(hist[1].name))
         => Len(server) <= Len(hist[2].before) + 1

\* create_organization created an organization, and the next call, with the
\* name in another case, raised
C20_Witness ==
  /\ Twice("create_organization")
  /\ hist[2].name # hist[1].name
  /\ lower(hist[2].name) = lower(hist[1].name)
  /\ hist[2].exc = NoExc /\ hist[2].posts = 1
  /\ hist[1].exc.type = "Exception"
  /\ hist[1].posts = 0
  /\ Len(server) = Len(hist[2].before) + 1

----------------------------------------------------------------------------
(* track_progress_result *)

\* track_progress_result has returned or raised
TrackDone == pc = "done" /\ Len(fn_args) = 1

\* the progress key it was called with
TrackedKey == fn_args[1]

Yields100(p) ==
  /\ p.exc = NoExc
  /\ p.ret.t = "dict"
  /\ "progress" \in DOMAIN p.ret.d
  /\ p.ret.d["progress"] = 100

\* the poll gave a checked result that has no progress at all
NoProgress(p) ==
  /\ p.exc = NoExc
  /\ ~(p.ret.t = "dict" /\ (p.ret.d = <<>> \/ "progress" \in DOMAIN p.ret.d))

\* the poll raised, or reported another progress value
PollsAgain(p) == ~Yields100(p) /\ ~NoProgress(p)

\* the latest poll
LastPoll == hist[Len(hist)]

----------------------------------------------------------------------------
(* upload_and_match_datafile *)

\* the endpoints in the order upload_and_match_datafile is to use them, the
\* import of the meters included
UploadOrder ==
  <<"datasets", "upload", "import_files_start_save_data_pk", "progress",
    "column_mapping_profiles_filter", "column_mapping_profiles",
    "org_column_mapping_import_file", "import_files_start_map_data_pk", "progress",
    "import_files_start_matching_pk", "progress", "import_files_matching_results",
    "import_files_check_meters_tab_exists_pk",
    "import_files_reuse_inventory_file_for_meters",
    "import_files_start_save_data_pk", "progress">>

\* the endpoints that start a background job
JobEndpoints ==
  {"import_files_start_save_data_pk", "import_files_start_map_data_pk",
   "import_files_start_matching_pk"}

\* the endpoints of the import of the meters
MeterEndpoints ==
  {"import_files_check_meters_tab_exists_pk",
   "import_files_reuse_inventory_file_for_meters"}

\* the places in hist where another endpoint is used than just before
StepStarts == {i \in DOMAIN hist : i = 1 \/ hist[i].endpoint # hist[i - 1].endpoint}

\* the endpoints used so far, in order, an endpoint used several times in a
\* row counting once
StepsIssued ==
  [k \in 1 .. Cardinality(StepStarts) |->
     hist[CHOOSE i \in StepStarts : Cardinality({j \in StepStarts : j <= i}) = k].endpoint]

\* C22: upload_and_match_datafile issues its server operations in the order
\* dataset get/create, file upload, start_save_data, column mapping profile
\* create/update, set import file column mappings, start_map_data, start
\* system matching, get matching results (then the import of the meters);
\* the step after a background job is issued only after
\* track_progress_result has returned for the progress key of that job, and
\* the value returned is the matching result, obtained before any import of
\* meters.
C22_UploadOrder ==
  /\ Len(StepsIssued) <= Len(UploadOrder)
  /\ \A k \in DOMAIN StepsIssued : StepsIssued[k] = UploadOrder[k]
  /\ \A i \in DOMAIN hist :
       /\ i < Len(hist) => hist[i].ok
       /\ (i > 1 /\ hist[i - 1].endpoint \in JobEndpoints) =>
            /\ hist[i].verb = "track_progress_result"
            /\ hist[i].key = hist[i - 1].key
       /\ hist[i].verb = "track_progress_result" =>
            (i > 1 /\ hist[i - 1].endpoint \in JobEndpoints)
  /\ (pc = "done" /\ fn_result.exc = NoExc) =>
       \E i \in DOMAIN hist :
         /\ hist[i].endpoint = "import_files_matching_results"
         /\ fn_result.ret = hist[i].val
         /\ \A j \in 1 .. i : hist[j].endpoint \notin MeterEndpoints

\* the method has returned after it created the dataset, waited for the
\* three jobs and imported the meters
C22_Witness ==
  /\ pc = "done"
  /\ fn_result.exc = NoExc
  /\ fn_result.ret \in MatchingResults
  /\ StepsIssued = UploadOrder
  /\ Cardinality({i \in DOMAIN hist : hist[i].verb = "track_progress_result"}) = 4
  /\ \E i \in DOMAIN hist : hist[i].endpoint = "datasets" /\ hist[i].verb = "get"

----------------------------------------------------------------------------
(* read_map_file *)

\* read_map_file has returned a list
MapFileRead == pc = "done" /\ fn_result.exc = NoExc

\* the fifth column of the row, stripped and lower-cased, equals 'true'
OmitColumnTrue(rowitem) ==
  /\ Len(rowitem) >= 5
  /\ strip(lower(rowitem[5])) = <<"t", "r", "u", "e">>

\* C23: every mapping returned by read_map_file (one per data row, header
\* skipped, in file order) has an 'is_omitted' key, which is True iff the
\* fifth column of the row, stripped and lower-cased, equals 'true', and
\* False otherwise, including when the fifth column is absent.
C23_IsOmitted ==
  MapFileRead =>
    /\ Len(fn_result.ret) = Len(fn_args.rows) - 1
    /\ \A i \in DOMAIN fn_result.ret :
         /\ fn_result.ret[i]["from_field"] = fn_args.rows[i + 1][1]
         /\ "is_omitted" \in DOMAIN fn_result.ret[i]
         /\ fn_result.ret[i]["is_omitted"] =
              IF OmitColumnTrue(fn_args.rows[i + 1]) THEN TrueV ELSE FalseV

----------------------------------------------------------------------------
(* One request for each CRUD call *)

\* a CRUD call of a pyseed.seed_client_base client has completed
CrudDone == pc = "done" /\ ~legacy /\ last.op \in CrudOps

\* the call raised because the OAuth access token could not be obtained
TokenFailed == last.exc = Raise("TypeError", "_get_access_token")

\* the number of HTTP requests the call has issued
RequestsIssued == IF last.req # NoRequest THEN 1 ELSE 0

\* what C24 says of the response check: a payload is extracted and returned
\* only from a response that passed _check_response, and only the 204
\* shortcut of delete, which returns None, skips the check
CheckedBeforeExtracted ==
  /\ last.sent = (RequestsIssued = 1)
  /\ last.sent => (last.checked <=> ~(last.op = "delete" /\ last.resp.status_code = 204))
  /\ ~last.sent => ~last.checked /\ last.ret = NoRet /\ last.exc # NoExc
  /\ last.ret # NoRet =>
       /\ last.sent
       /\ last.checked
       /\ last.check_exc = NoExc
       /\ ~ResponseIsError(last.resp)
  /\ (last.sent /\ ~last.checked) => last.ret = NoRet /\ last.exc = NoExc

\* C24, as the specification states it: each call of get, list, post, put,
\* patch or delete issues no HTTP request when URL, pk or endpoint validation
\* fails and exactly one otherwise, and a payload is extracted and returned
\* only from a response that passed _check_response, the 204 shortcut of
\* delete being the only path that skips the check.
C24_OneRequestUnlessInvalid ==
  CrudDone =>
    /\ CheckedBeforeExtracted
    /\ RequestsIssued = 0 => ~TokenFailed

\* C24, amended: each call of get, list, post, put, patch or delete issues at
\* most one HTTP request: none when it raises before the HTTP call, which
\* happens when URL, pk or endpoint validation fails and also when an OAuth
\* client cannot obtain its access token, and exactly one otherwise; a
\* payload is extracted and returned only from a response that passed
\* _check_response, the 204 shortcut of delete (which returns None) being the
\* only path that skips the check.
C24_OneRequest ==
  CrudDone =>
    /\ CheckedBeforeExtracted
    /\ TokenFailed => (RequestsIssued = 0 /\ authKind = "oauth" /\ ~Truthy(token))

\* a post has sent its request and returned the payload of a checked response
C24_Witness ==
  /\ CrudDone
  /\ last.op = "post"
  /\ RequestsIssued = 1
  /\ last.checked
  /\ last.ret # NoRet

----------------------------------------------------------------------------
(* update_label and delete_label *)

\* the latest call was update_label or delete_label
LabelCalled == hist # <<>> /\ hist[1].op \in {"update_label", "delete_label"}

\* the labels that had the name given to the latest call, before the call
LabelsFound == LabelsNamed(hist[1].before, hist[1].name)

\* the verb of the write request of the latest call
WriteVerb == IF hist[1].op = "update_label" THEN "PUT" ELSE "DELETE"

\* C26: update_label and delete_label raise an Exception and issue no PUT
\* or DELETE request unless exactly one label with the given name exists;
\* when exactly one exists, and the listing of the labels succeeds, they
\* issue exactly one write request, addressed to the id of that label.
C26_LabelWrites ==
  LabelCalled =>
    /\ Cardinality(LabelsFound) # 1 =>
         /\ hist[1].exc.type \in {"Exception", "SEEDError"}
         /\ hist[1].posts = <<>>
         /\ server = hist[1].before
    /\ Cardinality(LabelsFound) = 1 =>
         \/ hist[1].exc = HttpFailed /\ hist[1].posts = <<>> /\ server = hist[1].before
         \/ \E i \in LabelsFound :
              hist[1].posts = <<Write(WriteVerb, hist[1].before[i].id)>>

\* two labels had the name and the call raised; the call before it wrote to
\* the one label that had its name
C26_Witness ==
  /\ Len(hist) = 2
  /\ hist[1].op \in {"update_label", "delete_label"}
  /\ Cardinality(LabelsFound) = 2
  /\ hist[1].exc.type = "Exception"
  /\ hist[2].op \in {"update_label", "delete_label"}
  /\ Len(hist[2].posts) = 1
  /\ hist[2].exc = NoExc

----------------------------------------------------------------------------
(* get_org_by_name and get_cycle_by_name *)

\* get_org_by_name, or get_cycle_by_name, has just returned or raised
OrgByNameDone == pc = "done" /\ last.op = "get_org_by_name"
CycleByNameDone == pc = "done" /\ last.op = ""

\* get_organizations() has returned the list of the organizations
OrgsListed ==
  /\ last.checked
  /\ last.check_exc = NoExc
  /\ DictGet(last.resp.d, "organizations", NoneV) = OrgsV

\* the places, in the list, of the entries with exactly the name given
OrgsNamed == {i \in DOMAIN last.orgs : last.orgs[i].name = last.kwargs["org_name"]}
CyclesNamed == {i \in DOMAIN server : server[i].name = fn_args.cycle_name}

\* C27: get_org_by_name and get_cycle_by_name change the client's org_id /
\* cycle_id only when the set flag is true and an entry with exactly the
\* given name is found, setting it to the id of the first such entry; when
\* the list was obtained and no entry matches they raise ValueError and
\* leave org_id / cycle_id unchanged.
C27_ByName ==
  /\ OrgByNameDone =>
       /\ org_id # last.org_at_call => (last.kwargs["set_org_id"] /\ OrgsNamed # {})
       /\ (last.kwargs["set_org_id"] /\ last.exc = NoExc) =>
            \E i \in OrgsNamed :
              (\A j \in OrgsNamed : i <= j) /\ org_id = last.orgs[i].id
       /\ (OrgsListed /\ OrgsNamed = {}) =>
            last.exc.type = "ValueError" /\ org_id = last.org_at_call
  /\ CycleByNameDone =>
       /\ cycle_id # fn_args.cycle_id => (fn_args.set_cycle_id /\ CyclesNamed # {})
       /\ (fn_args.set_cycle_id /\ fn_result.exc = NoExc) =>
            \E i \in CyclesNamed :
              (\A j \in CyclesNamed : i <= j) /\ cycle_id = server[i].id
       /\ (fn_result.exc # HttpFailed /\ CyclesNamed = {}) =>
            fn_result.exc.type = "ValueError" /\ cycle_id = fn_args.cycle_id

\* the client, whose org_id an earlier get_org_by_name has changed, has set
\* its cycle_id to the id of the first of two cycles with the same name
C27_Witness ==
  /\ CycleByNameDone
  /\ org_id # 1
  /\ fn_args.set_cycle_id
  /\ Cardinality(CyclesNamed) = 2
  /\ cycle_id # fn_args.cycle_id
  /\ cycle_id = server[1].id

----------------------------------------------------------------------------
(* The rules of _check_response *)

\* _check_response has looked at a 200/201/202 response with JSON content type
JsonChecked ==
  /\ pc = "done" /\ ~legacy /\ last.op \in CrudOps
  /\ last.checked
  /\ last.resp.status_code \in {200, 201, 202}
  /\ HasType(last.resp.ctype, JsonType)

\* the statuses of a background task that are no error
TaskOk == {"not-started", "success", "parsing"}

\* the error the five rules give for the JSON object d, the first rule that
\* applies deciding
RuleError(d) ==
  CASE Truthy(DictGet(d, "status", NoneV)) /\ "progress_key" \in DOMAIN d ->
         d["status"] \notin TaskOk
    [] Truthy(DictGet(d, "status", NoneV)) /\ "progress_key" \notin DOMAIN d ->
         d["status"] = "error"
    [] ~Truthy(DictGet(d, "status", NoneV)) /\ "success" \in DOMAIN d ->
         ~Truthy(d["success"])
    [] /\ ~Truthy(DictGet(d, "status", NoneV)) /\ "success" \notin DOMAIN d
       /\ "progress_data" \in DOMAIN d ->
         d["progress_data"] \notin TaskOk
    [] OTHER ->
         DOMAIN d \cap {"results", "readings", "data", "status", "id", "organizations",
                        "sha", "users"} = {}

\* C28: for a 200/201/202 response with JSON content type whose body is an
\* object, _check_response raises iff the first of the five rules that
\* applies gives an error (status with progress_key, status without it,
\* success, progress_data, known keys); a JSON list body is never an error,
\* and any other JSON value is.
C28_CheckRules ==
  JsonChecked =>
    /\ last.resp.kind = "dict" =>
         ((last.check_exc # NoExc) <=> RuleError(last.resp.d))
    /\ last.resp.kind = "list" => last.check_exc = NoExc
    /\ last.resp.kind = "null" => last.check_exc.type = "SEEDError"
    /\ last.check_exc # NoExc => last.exc = last.check_exc

\* a body whose status is neither 'error' nor a status of a background task,
\* and which has no progress_key, has passed the check
C28_Witness ==
  /\ JsonChecked
  /\ last.resp.kind = "dict"
  /\ DictGet(last.resp.d, "status", NoneV) = "complete"
  /\ last.check_exc = NoExc


----------------------------------------------------------------------------
(* The auth object of a client with user authentication *)

\* the client authenticates its requests
UsesAuth == Truthy(api.use_auth)

\* the auth object the claim describes for the attributes self
AuthDescribed(self) ==
  [kind |-> IF self.auth_method = "digest" THEN "HTTPDigestAuth" ELSE "HTTPBasicAuth",
   username |-> self.username,
   password |-> IF self.password = NoneV THEN self.api_key ELSE self.password]

\* the auth object without its identity
AuthValue(au) == [kind |-> au.kind, username |-> au.username, password |-> au.password]

\* C29: a client with use_auth true has no auth object before its first
\* request; the first request makes one from the username and the password
\* the client has then (the api_key when it has no password; digest when
\* auth_method is 'digest', basic otherwise), and every request of the
\* client is sent with that one object, whatever the credential attributes
\* have become since.
C29_AuthReused ==
  UsesAuth =>
    /\ call.n = 0 => hist = <<>> /\ api.auth = NoAuth
    /\ call.n >= 1 =>
         /\ Len(hist) = 1
         /\ AuthValue(hist[1].auth) = AuthDescribed(hist[1].self)
         /\ call.auth = hist[1].auth
         /\ api.auth = hist[1].auth

\* a later request was sent with the first auth object after the username,
\* the password and the auth_method of the client had been changed
C29_Witness ==
  /\ UsesAuth
  /\ call.n >= 2
  /\ call.auth = hist[1].auth
  /\ api.username # hist[1].self.username
  /\ api.password # hist[1].self.password
  /\ api.auth_method # hist[1].self.auth_method
  /\ AuthValue(call.auth) # AuthDescribed(api)


----------------------------------------------------------------------------
(* The audit template report of a submission *)

\* retrieve_at_submission_and_update has returned or raised
SubmissionDone == pc = "done" /\ fn_args.fn = "retrieve_at_submission_and_update"

\* the answer to the GET passes _check_response
GetChecked == _check_response(server.get, "get", fn_args.fn) = NoExc

\* the status of the result of the GET, NoneV when it has none
GetStatus ==
  IF ~HasType(server.get.ctype, JsonType) THEN "success"
  ELSE DictGet(server.get.d, "status", NoneV)

\* the answer to the PUT passes _check_response
PutChecked == _check_response(server.put, "put", fn_args.fn) = NoExc

\* the call issued the PUT
PutIssued == \E i \in DOMAIN hist : hist[i].verb = "PUT"

\* C30: when the GET of retrieve_at_submission_and_update passes response
\* checking and its result has a status, the PUT is issued only if that
\* status is 'success', and the call returns a response dict: the result of
\* the GET when its status is not 'success', the checked result of the PUT
\* otherwise.
C30_SubmissionReturns ==
  SubmissionDone /\ GetChecked /\ GetStatus # NoneV =>
    /\ PutIssued <=> GetStatus = "success"
    /\ GetStatus # "success" \/ PutChecked =>
         fn_result.exc = NoExc /\ fn_result.ret.t = "dict"

====
